---------------------------- MODULE Spec2Model ----------------------------
(***************************************************************************)
(* Shopify structured-data generator: the schema builder                   *)
(* (src/src/core/generator.py), the enhancement adapter                    *)
(* (src/src/ai/enhancer.py), the schema validator                          *)
(* (src/src/validation/schema_validator.py) and the generate command       *)
(* (src/cli/commands/generate.py).                                         *)
(*                                                                         *)
(* Python values are modelled as follows.                                  *)
(*  - A str is a sequence of one-character strings, so len(), slicing,     *)
(*    startswith() and `in` are computed on the characters.                *)
(*  - A JSON-LD document is a tagged value: a one-field record whose field *)
(*    name is the Python type (null, bool, num, str, list, dict), so that  *)
(*    isinstance() is a test on the field name and values of different     *)
(*    types are never compared.                                            *)
(*  - A catalog record (dict read with .get) is a record whose DOMAIN is   *)
(*    the set of keys present.                                             *)
(*  - An exception is a result tagged "raise".                             *)
(***************************************************************************)
EXTENDS Integers, Sequences, FiniteSets, TLC

VARIABLES pc, call, ret

vars == <<pc, call, ret>>

(***************************************************************************)
(* Bounds of the model.                                                    *)
(***************************************************************************)
MaxVariants == 2

(***************************************************************************)
(* String literals of the source.                                          *)
(***************************************************************************)
S_Empty == <<>>
S_ContextSlash == <<"h", "t", "t", "p", "s", ":", "/", "/", "s", "c", "h", "e", "m", "a", ".", "o", "r", "g", "/">>
S_Context == <<"h", "t", "t", "p", "s", ":", "/", "/", "s", "c", "h", "e", "m", "a", ".", "o", "r", "g">>
S_InStock == <<"h", "t", "t", "p", "s", ":", "/", "/", "s", "c", "h", "e", "m", "a", ".", "o", "r", "g", "/", "I", "n", "S", "t", "o", "c", "k">>
S_OutOfStock == <<"h", "t", "t", "p", "s", ":", "/", "/", "s", "c", "h", "e", "m", "a", ".", "o", "r", "g", "/", "O", "u", "t", "O", "f", "S", "t", "o", "c", "k">>
S_Product == <<"P", "r", "o", "d", "u", "c", "t">>
S_Offer == <<"O", "f", "f", "e", "r">>
S_Brand == <<"B", "r", "a", "n", "d">>
S_Organization == <<"O", "r", "g", "a", "n", "i", "z", "a", "t", "i", "o", "n">>
S_BreadcrumbList == <<"B", "r", "e", "a", "d", "c", "r", "u", "m", "b", "L", "i", "s", "t">>
S_ListItem == <<"L", "i", "s", "t", "I", "t", "e", "m">>
S_FAQPage == <<"F", "A", "Q", "P", "a", "g", "e">>
S_FAQ == <<"F", "A", "Q">>
S_Review == <<"R", "e", "v", "i", "e", "w">>
S_Question == <<"Q", "u", "e", "s", "t", "i", "o", "n">>
S_Answer == <<"A", "n", "s", "w", "e", "r">>
S_ProductModel == <<"P", "r", "o", "d", "u", "c", "t", "M", "o", "d", "e", "l">>
S_QuantitativeValue == <<"Q", "u", "a", "n", "t", "i", "t", "a", "t", "i", "v", "e", "V", "a", "l", "u", "e">>
S_Home == <<"H", "o", "m", "e">>
S_Unknown == <<"U", "n", "k", "n", "o", "w", "n">>
S_Store == <<"S", "t", "o", "r", "e">>
S_USD == <<"U", "S", "D">>
S_Zero == <<"0">>
S_Other == <<"O", "t", "h", "e", "r">>
S_g == <<"g">>
S_Https == <<"h", "t", "t", "p", "s", ":", "/", "/">>
S_MyshopifyCom == <<".", "m", "y", "s", "h", "o", "p", "i", "f", "y", ".", "c", "o", "m">>
S_ProductsPath == <<"/", "p", "r", "o", "d", "u", "c", "t", "s", "/">>
S_CollectionsPath == <<"/", "c", "o", "l", "l", "e", "c", "t", "i", "o", "n", "s", "/">>
S_WhatIs == <<"W", "h", "a", "t", " ", "i", "s", " ">>
S_QMark == <<"?">>
S_Ellipsis == <<".", ".", ".">>
S_Widget == <<"W", "i", "d", "g", "e", "t">>
S_widget == <<"w", "i", "d", "g", "e", "t">>
S_shop == <<"s", "h", "o", "p">>
S_Acme == <<"A", "c", "m", "e">>
S_ShopName == <<"T", "e", "a", " ", "S", "h", "o", "p">>
S_EUR == <<"E", "U", "R">>
S_SkuS == <<"T", "E", "S", "T", "-", "S">>
S_SkuL == <<"T", "E", "S", "T", "-", "L">>
S_Price1 == <<"1", "9", ".", "9", "9">>
S_Price2 == <<"2", "9", ".", "9", "9">>
S_Small == <<"S", "m", "a", "l", "l">>
S_Large == <<"L", "a", "r", "g", "e">>
S_BodyShort == <<"<", "p", ">", "G", "o", "o", "d", " ", " ", "t", "e", "a", "<", "/", "p", ">">>
S_BodyBlank == <<"<", "p", ">", " ", "<", "/", "p", ">">>
S_Img1 == <<"h", "t", "t", "p", "s", ":", "/", "/", "e", "x", "a", "m", "p", "l", "e", ".", "c", "o", "m", "/", "i", "m", "a", "g", "e", "1", ".", "j", "p", "g">>
S_Teas == <<"T", "e", "a", "s">>
S_teas == <<"t", "e", "a", "s">>
S_Gifts == <<"G", "i", "f", "t", "s">>
S_gifts == <<"g", "i", "f", "t", "s">>
S_ImageObject == <<"I", "m", "a", "g", "e", "O", "b", "j", "e", "c", "t">>
S_TypeMustBe == <<"S", "c", "h", "e", "m", "a", " ", "t", "y", "p", "e", " ", "m", "u", "s", "t", " ", "b", "e", " ", "'">>
S_Quote == <<"'">>
S_MissingRequired == <<"M", "i", "s", "s", "i", "n", "g", " ", "r", "e", "q", "u", "i", "r", "e", "d", " ", "f", "i", "e", "l", "d", ":", " ">>
S_RecommendedMissing == <<"R", "e", "c", "o", "m", "m", "e", "n", "d", "e", "d", " ", "f", "i", "e", "l", "d", " ", "m", "i", "s", "s", "i", "n", "g", ":", " ">>
S_InvalidUrl == <<"I", "n", "v", "a", "l", "i", "d", " ", "U", "R", "L", " ", "f", "o", "r", "m", "a", "t">>
S_ItemListNonEmpty == <<"i", "t", "e", "m", "L", "i", "s", "t", "E", "l", "e", "m", "e", "n", "t", " ", "m", "u", "s", "t", " ", "b", "e", " ", "a", " ", "n", "o", "n", "-", "e", "m", "p", "t", "y", " ", "l", "i", "s", "t">>
S_BreadcrumbItem == <<"B", "r", "e", "a", "d", "c", "r", "u", "m", "b", " ", "i", "t", "e", "m", " ">>
S_MustBeObject == <<" ", "m", "u", "s", "t", " ", "b", "e", " ", "a", "n", " ", "o", "b", "j", "e", "c", "t">>
S_MustHaveType == <<" ", "m", "u", "s", "t", " ", "h", "a", "v", "e", " ", "@", "t", "y", "p", "e", " ", "'">>
S_MissingPosition == <<" ", "m", "i", "s", "s", "i", "n", "g", " ", "p", "o", "s", "i", "t", "i", "o", "n">>
S_MissingName == <<" ", "m", "i", "s", "s", "i", "n", "g", " ", "n", "a", "m", "e">>
S_MainEntityNonEmpty == <<"m", "a", "i", "n", "E", "n", "t", "i", "t", "y", " ", "m", "u", "s", "t", " ", "b", "e", " ", "a", " ", "n", "o", "n", "-", "e", "m", "p", "t", "y", " ", "l", "i", "s", "t">>
S_FaqItem == <<"F", "A", "Q", " ", "i", "t", "e", "m", " ">>
S_MissingQuestionName == <<" ", "m", "i", "s", "s", "i", "n", "g", " ", "q", "u", "e", "s", "t", "i", "o", "n", " ", "n", "a", "m", "e">>
S_MissingAcceptedAnswer == <<" ", "m", "i", "s", "s", "i", "n", "g", " ", "a", "c", "c", "e", "p", "t", "e", "d", "A", "n", "s", "w", "e", "r">>
S_AnswerMustBeObject == <<" ", "a", "c", "c", "e", "p", "t", "e", "d", "A", "n", "s", "w", "e", "r", " ", "m", "u", "s", "t", " ", "b", "e", " ", "a", "n", " ", "o", "b", "j", "e", "c", "t">>
S_AnswerMustHaveType == <<" ", "a", "c", "c", "e", "p", "t", "e", "d", "A", "n", "s", "w", "e", "r", " ", "m", "u", "s", "t", " ", "h", "a", "v", "e", " ", "@", "t", "y", "p", "e", " ", "'", "A", "n", "s", "w", "e", "r", "'">>
S_AnswerMissingText == <<" ", "a", "c", "c", "e", "p", "t", "e", "d", "A", "n", "s", "w", "e", "r", " ", "m", "i", "s", "s", "i", "n", "g", " ", "t", "e", "x", "t">>
S_OfferSpace == <<"O", "f", "f", "e", "r", " ">>
S_OfferMissingRequired == <<" ", "m", "i", "s", "s", "i", "n", "g", " ", "r", "e", "q", "u", "i", "r", "e", "d", " ", "f", "i", "e", "l", "d", ":", " ">>
S_AvailabilityShould == <<" ", "a", "v", "a", "i", "l", "a", "b", "i", "l", "i", "t", "y", " ", "s", "h", "o", "u", "l", "d", " ", "u", "s", "e", " ", "s", "c", "h", "e", "m", "a", ".", "o", "r", "g", " ", "U", "R", "L">>
S_NoImages == <<"N", "o", " ", "p", "r", "o", "d", "u", "c", "t", " ", "i", "m", "a", "g", "e", "s", " ", "f", "o", "u", "n", "d">>
S_ImageSpace == <<"I", "m", "a", "g", "e", " ">>
S_HasInvalidUrl == <<" ", "h", "a", "s", " ", "i", "n", "v", "a", "l", "i", "d", " ", "U", "R", "L", " ", "f", "o", "r", "m", "a", "t">>
S_ShouldHaveType == <<" ", "s", "h", "o", "u", "l", "d", " ", "h", "a", "v", "e", " ", "@", "t", "y", "p", "e", " ", "'", "I", "m", "a", "g", "e", "O", "b", "j", "e", "c", "t", "'">>
S_MissingUrl == <<" ", "m", "i", "s", "s", "i", "n", "g", " ", "U", "R", "L">>
S_GoogleRequires == <<"G", "o", "o", "g", "l", "e", " ", "r", "e", "q", "u", "i", "r", "e", "s", " ", "f", "i", "e", "l", "d", ":", " ">>
S_GoogleRecommends == <<"G", "o", "o", "g", "l", "e", " ", "r", "e", "c", "o", "m", "m", "e", "n", "d", "s", " ", "f", "i", "e", "l", "d", ":", " ">>
S_EnsureImages == <<"E", "n", "s", "u", "r", "e", " ", "i", "m", "a", "g", "e", "s", " ", "m", "e", "e", "t", " ", "G", "o", "o", "g", "l", "e", " ", "r", "e", "q", "u", "i", "r", "e", "m", "e", "n", "t", "s", ":", " ", "m", "i", "n", " ">>
S_x == <<"x">>
S_Pixels == <<" ", "p", "i", "x", "e", "l", "s">>
S_Http == <<"h", "t", "t", "p", ":", "/", "/">>
S_localhost == <<"l", "o", "c", "a", "l", "h", "o", "s", "t">>
S_UrlExample == <<"h", "t", "t", "p", "s", ":", "/", "/", "e", "x", "a", "m", "p", "l", "e", ".", "c", "o", "m">>
S_UrlNoScheme == <<"e", "x", "a", "m", "p", "l", "e", ".", "c", "o", "m", "/", "a", ".", "j", "p", "g">>
S_Desc == <<"G", "o", "o", "d", " ", "t", "e", "a">>
S_Tea == <<"T", "e", "a">>
S_Text == <<"I", "t", " ", "i", "s", " ", "t", "e", "a", ".">>
S_PreOrder == <<"P", "r", "e", "O", "r", "d", "e", "r">>
S_Space == <<" ">>
S_InSpace == <<"i", "n", " ">>
S_ICannot == <<"I", " ", "c", "a", "n", "n", "o", "t">>
S_IsAvailable == <<" ", "i", "s", " ", "a", "v", "a", "i", "l", "a", "b", "l", "e", " ", "i", "n", " ", "o", "u", "r", " ", "s", "t", "o", "r", "e", ".">>
S_DoYouOfferShipping == <<"D", "o", " ", "y", "o", "u", " ", "o", "f", "f", "e", "r", " ", "s", "h", "i", "p", "p", "i", "n", "g", "?">>
S_YesWeOfferShipping == <<"Y", "e", "s", ",", " ", "w", "e", " ", "o", "f", "f", "e", "r", " ", "s", "h", "i", "p", "p", "i", "n", "g", ".", " ", "P", "l", "e", "a", "s", "e", " ", "c", "h", "e", "c", "k", " ", "o", "u", "r", " ", "s", "h", "i", "p", "p", "i", "n", "g", " ", "p", "o", "l", "i", "c", "y", " ", "f", "o", "r", " ", "d", "e", "t", "a", "i", "l", "s", " ", "o", "n", " ", "d", "e", "l", "i", "v", "e", "r", "y", " ", "t", "i", "m", "e", "s", " ", "a", "n", "d", " ", "c", "o", "s", "t", "s", ".">>
S_Food == <<"F", "o", "o", "d">>
S_Media == <<"M", "e", "d", "i", "a">>
S_Gadgets == <<"G", "a", "d", "g", "e", "t", "s">>
S_BodyLong == <<"<", "p", ">", "A", " ", "f", "i", "n", "e", " ", "g", "r", "e", "e", "n", " ", "t", "e", "a", " ", "f", "o", "r", " ", "e", "v", "e", "r", "y", " ", "d", "a", "y", ".", "<", "/", "p", ">">>
S_RespDesc == <<" ", "A", " ", "f", "i", "n", "e", " ", "g", "r", "e", "e", "n", " ", "t", "e", "a", ",", " ", "p", "i", "c", "k", "e", "d", " ", "b", "y", " ", "h", "a", "n", "d", ".", " ", "O", "r", "d", "e", "r", " ", "n", "o", "w", "!", " ">>
S_RespShort == <<"N", "i", "c", "e", " ", "t", "e", "a", ".">>
S_RespRefusal == <<"I", " ", "c", "a", "n", "n", "o", "t", " ", "h", "e", "l", "p", " ", "w", "i", "t", "h", " ", "t", "h", "i", "s", " ", "r", "e", "q", "u", "e", "s", "t", ".">>
S_RespBlank == <<" ", " ">>
S_RespFaq == <<"{", "\"", "q", "u", "e", "s", "t", "i", "o", "n", "s", "\"", ":", " ", "[", "{", "\"", "q", "u", "e", "s", "t", "i", "o", "n", "\"", ":", " ", "\"", "I", "s", " ", "i", "t", " ", "t", "e", "a", "?", "\"", ",", " ", "\"", "a", "n", "s", "w", "e", "r", "\"", ":", " ", "\"", "I", "t", " ", "i", "s", " ", "t", "e", "a", ".", "\"", "}", ",", " ", "\"", "x", "\"", "]", "}">>
S_RespNoQuestions == <<"{", "\"", "q", "u", "e", "s", "t", "i", "o", "n", "s", "\"", ":", " ", "[", "]", "}">>
S_RespJsonList == <<"[", "]">>
S_TextBamboo == <<"B", "a", "m", "b", "o", "o", " ", "c", "u", "p">>
S_TextOrganic == <<"O", "r", "g", "a", "n", "i", "c", " ", "C", "o", "t", "t", "o", "n", " ", "s", "h", "i", "r", "t">>
S_TextGold == <<"G", "O", "L", "D", " ", "a", "n", "d", " ", "s", "i", "l", "v", "e", "r", " ", "r", "i", "n", "g">>
S_TextWooden == <<"w", "o", "o", "d", "e", "n", " ", "s", "p", "o", "o", "n", ",", " ", "s", "t", "a", "i", "n", "l", "e", "s", "s", " ", "s", "t", "e", "e", "l", " ", "h", "a", "n", "d", "l", "e">>
S_TextPlain == <<"A", " ", "p", "l", "a", "i", "n", " ", "t", "h", "i", "n", "g">>
S_TextRecycled == <<"r", "e", "c", "y", "c", "l", "e", "d", " ", "p", "o", "l", "y", "e", "s", "t", "e", "r", " ", "a", "n", "d", " ", "w", "o", "o", "l">>
S_RespSix == <<"{", "\"", "q", "u", "e", "s", "t", "i", "o", "n", "s", "\"", ":", " ", "[", "{", "\"", "q", "u", "e", "s", "t", "i", "o", "n", "\"", ":", " ", "\"", "Q", "1", "\"", ",", " ", "\"", "a", "n", "s", "w", "e", "r", "\"", ":", " ", "\"", "A", "1", "\"", "}", ",", " ", "{", "\"", "q", "u", "e", "s", "t", "i", "o", "n", "\"", ":", " ", "\"", "Q", "2", "\"", ",", " ", "\"", "a", "n", "s", "w", "e", "r", "\"", ":", " ", "\"", "A", "2", "\"", "}", ",", " ", "{", "\"", "q", "u", "e", "s", "t", "i", "o", "n", "\"", ":", " ", "\"", "Q", "3", "\"", ",", " ", "\"", "a", "n", "s", "w", "e", "r", "\"", ":", " ", "\"", "A", "3", "\"", "}", ",", " ", "{", "\"", "q", "u", "e", "s", "t", "i", "o", "n", "\"", ":", " ", "\"", "Q", "4", "\"", ",", " ", "\"", "a", "n", "s", "w", "e", "r", "\"", ":", " ", "\"", "A", "4", "\"", "}", ",", " ", "{", "\"", "q", "u", "e", "s", "t", "i", "o", "n", "\"", ":", " ", "\"", "Q", "5", "\"", ",", " ", "\"", "a", "n", "s", "w", "e", "r", "\"", ":", " ", "\"", "A", "5", "\"", "}", ",", " ", "{", "\"", "q", "u", "e", "s", "t", "i", "o", "n", "\"", ":", " ", "\"", "Q", "6", "\"", ",", " ", "\"", "a", "n", "s", "w", "e", "r", "\"", ":", " ", "\"", "A", "6", "\"", "}", "]", "}">>
S_IsItTea == <<"I", "s", " ", "i", "t", " ", "t", "e", "a", "?">>
S_ContactPoint == <<"C", "o", "n", "t", "a", "c", "t", "P", "o", "i", "n", "t">>
S_CustomerService == <<"c", "u", "s", "t", "o", "m", "e", "r", " ", "s", "e", "r", "v", "i", "c", "e">>
S_PostalAddress == <<"P", "o", "s", "t", "a", "l", "A", "d", "d", "r", "e", "s", "s">>
S_CollectionPage == <<"C", "o", "l", "l", "e", "c", "t", "i", "o", "n", "P", "a", "g", "e">>
S_WebSite == <<"W", "e", "b", "S", "i", "t", "e">>
S_TwitterCom == <<"h", "t", "t", "p", "s", ":", "/", "/", "t", "w", "i", "t", "t", "e", "r", ".", "c", "o", "m", "/">>
S_FacebookCom == <<"h", "t", "t", "p", "s", ":", "/", "/", "f", "a", "c", "e", "b", "o", "o", "k", ".", "c", "o", "m", "/">>
S_InstagramCom == <<"h", "t", "t", "p", "s", ":", "/", "/", "i", "n", "s", "t", "a", "g", "r", "a", "m", ".", "c", "o", "m", "/">>
S_LinkedinCom == <<"h", "t", "t", "p", "s", ":", "/", "/", "l", "i", "n", "k", "e", "d", "i", "n", ".", "c", "o", "m", "/", "c", "o", "m", "p", "a", "n", "y", "/">>
S_Phone == <<"+", "1", "-", "5", "5", "5", "-", "0", "1", "0", "0">>
S_Email == <<"h", "i", "@", "e", "x", "a", "m", "p", "l", "e", ".", "c", "o", "m">>
S_Street == <<"1", " ", "M", "a", "i", "n", " ", "S", "t">>
S_City == <<"S", "p", "r", "i", "n", "g", "f", "i", "e", "l", "d">>
S_teashop == <<"t", "e", "a", "s", "h", "o", "p">>
S_Domain == <<"t", "e", "a", ".", "e", "x", "a", "m", "p", "l", "e", ".", "c", "o", "m">>
S_ShopDesc == <<"<", "b", ">", "F", "i", "n", "e", " ", "t", "e", "a", "s", "<", "/", "b", ">">>
S_Books == <<"B", "o", "o", "k", "s">>
S_books == <<"b", "o", "o", "k", "s">>
S_shoes == <<"s", "h", "o", "e", "s">>
S_electronics == <<"e", "l", "e", "c", "t", "r", "o", "n", "i", "c", "s">>
S_phone == <<"p", "h", "o", "n", "e">>
S_Electronics == <<"E", "l", "e", "c", "t", "r", "o", "n", "i", "c", "s">>
S_Apparel == <<"A", "p", "p", "a", "r", "e", "l", " ", "&", " ", "A", "c", "c", "e", "s", "s", "o", "r", "i", "e", "s">>
S_RespPadded == <<" ", "M", "e", "d", "i", "a", " ">>
S_RespLower == <<"m", "e", "d", "i", "a">>

\* The characters of the dictionary keys, for the messages that quote them.
KeyChars ==
    "@type" :> <<"@", "t", "y", "p", "e">>
 @@ "@context" :> <<"@", "c", "o", "n", "t", "e", "x", "t">>
 @@ "@graph" :> <<"@", "g", "r", "a", "p", "h">>
 @@ "name" :> <<"n", "a", "m", "e">>
 @@ "description" :> <<"d", "e", "s", "c", "r", "i", "p", "t", "i", "o", "n">>
 @@ "image" :> <<"i", "m", "a", "g", "e">>
 @@ "offers" :> <<"o", "f", "f", "e", "r", "s">>
 @@ "brand" :> <<"b", "r", "a", "n", "d">>
 @@ "sku" :> <<"s", "k", "u">>
 @@ "category" :> <<"c", "a", "t", "e", "g", "o", "r", "y">>
 @@ "url" :> <<"u", "r", "l">>
 @@ "contactPoint" :> <<"c", "o", "n", "t", "a", "c", "t", "P", "o", "i", "n", "t">>
 @@ "address" :> <<"a", "d", "d", "r", "e", "s", "s">>
 @@ "sameAs" :> <<"s", "a", "m", "e", "A", "s">>
 @@ "itemListElement" :> <<"i", "t", "e", "m", "L", "i", "s", "t", "E", "l", "e", "m", "e", "n", "t">>
 @@ "mainEntity" :> <<"m", "a", "i", "n", "E", "n", "t", "i", "t", "y">>
 @@ "position" :> <<"p", "o", "s", "i", "t", "i", "o", "n">>
 @@ "item" :> <<"i", "t", "e", "m">>
 @@ "acceptedAnswer" :> <<"a", "c", "c", "e", "p", "t", "e", "d", "A", "n", "s", "w", "e", "r">>
 @@ "text" :> <<"t", "e", "x", "t">>
 @@ "price" :> <<"p", "r", "i", "c", "e">>
 @@ "priceCurrency" :> <<"p", "r", "i", "c", "e", "C", "u", "r", "r", "e", "n", "c", "y">>
 @@ "availability" :> <<"a", "v", "a", "i", "l", "a", "b", "i", "l", "i", "t", "y">>
 @@ "aggregateRating" :> <<"a", "g", "g", "r", "e", "g", "a", "t", "e", "R", "a", "t", "i", "n", "g">>
 @@ "reviewBody" :> <<"r", "e", "v", "i", "e", "w", "B", "o", "d", "y">>
 @@ "author" :> <<"a", "u", "t", "h", "o", "r">>
 @@ "reviewRating" :> <<"r", "e", "v", "i", "e", "w", "R", "a", "t", "i", "n", "g">>
 @@ "datePublished" :> <<"d", "a", "t", "e", "P", "u", "b", "l", "i", "s", "h", "e", "d">>
 @@ "publisher" :> <<"p", "u", "b", "l", "i", "s", "h", "e", "r">>

(***************************************************************************)
(* Python values.                                                          *)
(***************************************************************************)
JNull == [null |-> TRUE]
JBool(b) == [bool |-> b]
JNum(n) == [num |-> n]
JStr(s) == [str |-> s]
JList(l) == [list |-> l]
JDict(d) == [dict |-> d]

IsNull(v) == DOMAIN v = {"null"}
IsBool(v) == DOMAIN v = {"bool"}
IsNum(v) == DOMAIN v = {"num"}
IsStr(v) == DOMAIN v = {"str"}
IsList(v) == DOMAIN v = {"list"}
IsDict(v) == DOMAIN v = {"dict"}

\* bool(v): None, False, 0, "", [] and {} are falsy.
Truthy(v) ==
    CASE IsNull(v) -> FALSE
      [] IsBool(v) -> v.bool
      [] IsNum(v) -> v.num # 0
      [] IsStr(v) -> v.str # <<>>
      [] IsList(v) -> v.list # <<>>
      [] IsDict(v) -> DOMAIN v.dict # {}

EmptyDict == [k \in {} |-> JNull]

\* d.get(k, default) on a catalog record.
Get(d, k, default) == IF k \in DOMAIN d THEN d[k] ELSE default

\* s.startswith(p)
StartsWith(s, p) == Len(s) >= Len(p) /\ SubSeq(s, 1, Len(p)) = p

\* s[:n]
Prefix(s, n) == SubSeq(s, 1, IF n < Len(s) THEN n ELSE Len(s))

(***************************************************************************)
(* helpers.clean_html.  The inputs of the model hold no script or style    *)
(* element and no character entity, so what is modelled is get_text()      *)
(* dropping the tags and the whitespace clean-up.  Both are written as     *)
(* filters on the positions of the text rather than as loops, so that a    *)
(* text of a few hundred characters is evaluated without deep recursion.   *)
(***************************************************************************)
Whitespace == {" ", "\n"}

\* The values out[i] at the positions i of lo..hi that are in K, in order.
RECURSIVE Keep(_, _, _, _)
Keep(K, out, lo, hi) ==
    IF lo > hi THEN <<>>
    ELSE IF lo = hi THEN (IF lo \in K THEN <<out[lo]>> ELSE <<>>)
    ELSE Keep(K, out, lo, (lo + hi) \div 2) \o Keep(K, out, (lo + hi) \div 2 + 1, hi)

\* soup.get_text(): a "<" opens a tag, which runs to the next ">".
StripTags(s) ==
    LET InTag(i) == \E j \in 1..(i - 1) : s[j] = "<" /\ \A k \in (j + 1)..(i - 1) : s[k] # ">"
    IN  Keep({i \in 1..Len(s) : ~InTag(i) /\ s[i] # "<"}, s, 1, Len(s))

\* lines = (line.strip() for line in text.splitlines())
\* chunks = (phrase.strip() for line in lines for phrase in line.split("  "))
\* text = ' '.join(chunk for chunk in chunks if chunk)
\* A chunk ends at a line break or a double space, is stripped, and the
\* chunks that are left are joined by one space: every run of whitespace
\* between two words becomes one space, and the runs at the two ends go.
CollapseWhitespace(s) ==
    LET Words == {i \in 1..Len(s) : s[i] \notin Whitespace}
        FirstOfInnerRun(i) ==
            /\ s[i] \in Whitespace
            /\ i > 1 /\ s[i - 1] \notin Whitespace
            /\ \E j \in Words : j > i
        out == [i \in 1..Len(s) |-> IF s[i] \in Whitespace THEN " " ELSE s[i]]
    IN  Keep(Words \cup {i \in 1..Len(s) : FirstOfInnerRun(i)}, out, 1, Len(s))

clean_html(html_content) ==
    IF html_content = <<>> THEN <<>>
    ELSE CollapseWhitespace(StripTags(html_content))

\* helpers.generate_price_valid_until: the day `today` plus 30 days a month.
\* The date is kept as a day number; its rendering by strftime is not modelled.
PRICE_VALID_MONTHS == 6
generate_price_valid_until(today) == today + 30 * PRICE_VALID_MONTHS

(***************************************************************************)
(* core/generator.py: SchemaGenerator without an enhancer.                 *)
(***************************************************************************)
\* f"https://{shop_domain}.myshopify.com"
ShopUrl(config) == S_Https \o config.shop_domain \o S_MyshopifyCom

\* The availability expression of _generate_offers and _generate_variant_schemas.
Availability_GE(variant) ==
    IF Get(variant, "inventory_quantity", 0) >= 0 THEN S_InStock ELSE S_OutOfStock

Availability(variant) ==
    IF Get(variant, "inventory_quantity", 0) > 0 THEN S_InStock ELSE S_OutOfStock

\* The Offer _generate_offers builds for one variant.
Offer(variant, shop_info, today) ==
    JDict("@type" :> JStr(S_Offer)
       @@ "price" :> JStr(Get(variant, "price", S_Zero))
       @@ "priceCurrency" :> JStr(Get(shop_info, "currency", S_USD))
       @@ "availability" :> JStr(Availability(variant))
       @@ "sku" :> JStr(Get(variant, "sku", S_Empty))
       @@ "priceValidUntil" :> JNum(generate_price_valid_until(today))
       @@ "seller" :> JDict("@type" :> JStr(S_Organization)
                         @@ "name" :> JStr(Get(shop_info, "name", S_Store))))

\* _generate_offers: the loop appends one Offer per variant, in order.
RECURSIVE generate_offers(_, _, _)
generate_offers(variants, shop_info, today) ==
    IF variants = <<>> THEN <<>>
    ELSE <<Offer(Head(variants), shop_info, today)>>
         \o generate_offers(Tail(variants), shop_info, today)

\* _generate_variant_schemas
RECURSIVE generate_variant_schemas(_)
generate_variant_schemas(variants) ==
    IF variants = <<>> THEN <<>>
    ELSE <<JDict("@type" :> JStr(S_ProductModel)
              @@ "name" :> JStr(Get(Head(variants), "title", S_Empty))
              @@ "sku" :> JStr(Get(Head(variants), "sku", S_Empty))
              @@ "offers" :> JDict("@type" :> JStr(S_Offer)
                                @@ "price" :> JStr(Get(Head(variants), "price", S_Zero))
                                @@ "availability" :> JStr(Availability(Head(variants)))))>>
         \o generate_variant_schemas(Tail(variants))
CATEGORY_MAPPING ==
    << << <<"a", "p", "p", "a", "r", "e", "l">>,
          <<"A", "p", "p", "a", "r", "e", "l", " ", "&", " ", "A", "c", "c", "e", "s", "s", "o", "r", "i", "e", "s">> >>,
       << <<"c", "l", "o", "t", "h", "i", "n", "g">>,
          <<"A", "p", "p", "a", "r", "e", "l", " ", "&", " ", "A", "c", "c", "e", "s", "s", "o", "r", "i", "e", "s">> >>,
       << <<"s", "h", "o", "e", "s">>,
          <<"A", "p", "p", "a", "r", "e", "l", " ", "&", " ", "A", "c", "c", "e", "s", "s", "o", "r", "i", "e", "s">> >>,
       << <<"a", "c", "c", "e", "s", "s", "o", "r", "i", "e", "s">>,
          <<"A", "p", "p", "a", "r", "e", "l", " ", "&", " ", "A", "c", "c", "e", "s", "s", "o", "r", "i", "e", "s">> >>,
       << <<"j", "e", "w", "e", "l", "r", "y">>,
          <<"A", "p", "p", "a", "r", "e", "l", " ", "&", " ", "A", "c", "c", "e", "s", "s", "o", "r", "i", "e", "s">> >>,
       << <<"b", "a", "g", "s">>,
          <<"A", "p", "p", "a", "r", "e", "l", " ", "&", " ", "A", "c", "c", "e", "s", "s", "o", "r", "i", "e", "s">> >>,
       << <<"e", "l", "e", "c", "t", "r", "o", "n", "i", "c", "s">>,
          <<"E", "l", "e", "c", "t", "r", "o", "n", "i", "c", "s">> >>,
       << <<"c", "o", "m", "p", "u", "t", "e", "r", "s">>,
          <<"E", "l", "e", "c", "t", "r", "o", "n", "i", "c", "s">> >>,
       << <<"p", "h", "o", "n", "e", "s">>,
          <<"E", "l", "e", "c", "t", "r", "o", "n", "i", "c", "s">> >>,
       << <<"t", "a", "b", "l", "e", "t", "s">>,
          <<"E", "l", "e", "c", "t", "r", "o", "n", "i", "c", "s">> >>,
       << <<"a", "u", "d", "i", "o">>,
          <<"E", "l", "e", "c", "t", "r", "o", "n", "i", "c", "s">> >>,
       << <<"c", "a", "m", "e", "r", "a", "s">>,
          <<"E", "l", "e", "c", "t", "r", "o", "n", "i", "c", "s">> >>,
       << <<"h", "o", "m", "e">>,
          <<"H", "o", "m", "e", " ", "&", " ", "G", "a", "r", "d", "e", "n">> >>,
       << <<"f", "u", "r", "n", "i", "t", "u", "r", "e">>,
          <<"H", "o", "m", "e", " ", "&", " ", "G", "a", "r", "d", "e", "n">> >>,
       << <<"d", "e", "c", "o", "r">>,
          <<"H", "o", "m", "e", " ", "&", " ", "G", "a", "r", "d", "e", "n">> >>,
       << <<"k", "i", "t", "c", "h", "e", "n">>,
          <<"H", "o", "m", "e", " ", "&", " ", "G", "a", "r", "d", "e", "n">> >>,
       << <<"a", "p", "p", "l", "i", "a", "n", "c", "e", "s">>,
          <<"H", "o", "m", "e", " ", "&", " ", "G", "a", "r", "d", "e", "n">> >>,
       << <<"g", "a", "r", "d", "e", "n">>,
          <<"H", "o", "m", "e", " ", "&", " ", "G", "a", "r", "d", "e", "n">> >>,
       << <<"b", "e", "a", "u", "t", "y">>,
          <<"H", "e", "a", "l", "t", "h", " ", "&", " ", "B", "e", "a", "u", "t", "y">> >>,
       << <<"c", "o", "s", "m", "e", "t", "i", "c", "s">>,
          <<"H", "e", "a", "l", "t", "h", " ", "&", " ", "B", "e", "a", "u", "t", "y">> >>,
       << <<"s", "k", "i", "n", "c", "a", "r", "e">>,
          <<"H", "e", "a", "l", "t", "h", " ", "&", " ", "B", "e", "a", "u", "t", "y">> >>,
       << <<"h", "e", "a", "l", "t", "h">>,
          <<"H", "e", "a", "l", "t", "h", " ", "&", " ", "B", "e", "a", "u", "t", "y">> >>,
       << <<"w", "e", "l", "l", "n", "e", "s", "s">>,
          <<"H", "e", "a", "l", "t", "h", " ", "&", " ", "B", "e", "a", "u", "t", "y">> >>,
       << <<"s", "u", "p", "p", "l", "e", "m", "e", "n", "t", "s">>,
          <<"H", "e", "a", "l", "t", "h", " ", "&", " ", "B", "e", "a", "u", "t", "y">> >>,
       << <<"b", "o", "o", "k", "s">>,
          <<"M", "e", "d", "i", "a">> >>,
       << <<"m", "o", "v", "i", "e", "s">>,
          <<"M", "e", "d", "i", "a">> >>,
       << <<"m", "u", "s", "i", "c">>,
          <<"M", "e", "d", "i", "a">> >>,
       << <<"g", "a", "m", "e", "s">>,
          <<"T", "o", "y", "s", " ", "&", " ", "G", "a", "m", "e", "s">> >>,
       << <<"f", "o", "o", "d">>,
          <<"F", "o", "o", "d", " ", "&", " ", "B", "e", "v", "e", "r", "a", "g", "e", "s">> >>,
       << <<"b", "e", "v", "e", "r", "a", "g", "e", "s">>,
          <<"F", "o", "o", "d", " ", "&", " ", "B", "e", "v", "e", "r", "a", "g", "e", "s">> >>,
       << <<"d", "r", "i", "n", "k", "s">>,
          <<"F", "o", "o", "d", " ", "&", " ", "B", "e", "v", "e", "r", "a", "g", "e", "s">> >>,
       << <<"s", "n", "a", "c", "k", "s">>,
          <<"F", "o", "o", "d", " ", "&", " ", "B", "e", "v", "e", "r", "a", "g", "e", "s">> >>,
       << <<"s", "p", "o", "r", "t", "s">>,
          <<"S", "p", "o", "r", "t", "s", " ", "&", " ", "R", "e", "c", "r", "e", "a", "t", "i", "o", "n">> >>,
       << <<"f", "i", "t", "n", "e", "s", "s">>,
          <<"S", "p", "o", "r", "t", "s", " ", "&", " ", "R", "e", "c", "r", "e", "a", "t", "i", "o", "n">> >>,
       << <<"o", "u", "t", "d", "o", "o", "r">>,
          <<"S", "p", "o", "r", "t", "s", " ", "&", " ", "R", "e", "c", "r", "e", "a", "t", "i", "o", "n">> >>,
       << <<"r", "e", "c", "r", "e", "a", "t", "i", "o", "n">>,
          <<"S", "p", "o", "r", "t", "s", " ", "&", " ", "R", "e", "c", "r", "e", "a", "t", "i", "o", "n">> >>,
       << <<"a", "u", "t", "o", "m", "o", "t", "i", "v", "e">>,
          <<"A", "u", "t", "o", "m", "o", "t", "i", "v", "e">> >>,
       << <<"c", "a", "r">>,
          <<"A", "u", "t", "o", "m", "o", "t", "i", "v", "e">> >>,
       << <<"m", "o", "t", "o", "r", "c", "y", "c", "l", "e">>,
          <<"A", "u", "t", "o", "m", "o", "t", "i", "v", "e">> >>,
       << <<"p", "a", "r", "t", "s">>,
          <<"A", "u", "t", "o", "m", "o", "t", "i", "v", "e">> >>,
       << <<"t", "o", "y", "s">>,
          <<"T", "o", "y", "s", " ", "&", " ", "G", "a", "m", "e", "s">> >>,
       << <<"b", "a", "b", "y">>,
          <<"B", "a", "b", "y", " ", "&", " ", "K", "i", "d", "s">> >>,
       << <<"k", "i", "d", "s">>,
          <<"B", "a", "b", "y", " ", "&", " ", "K", "i", "d", "s">> >>,
       << <<"c", "h", "i", "l", "d", "r", "e", "n">>,
          <<"B", "a", "b", "y", " ", "&", " ", "K", "i", "d", "s">> >>,
       << <<"p", "e", "t">>,
          <<"P", "e", "t", " ", "S", "u", "p", "p", "l", "i", "e", "s">> >>,
       << <<"p", "e", "t", "s">>,
          <<"P", "e", "t", " ", "S", "u", "p", "p", "l", "i", "e", "s">> >>,
       << <<"o", "f", "f", "i", "c", "e">>,
          <<"O", "f", "f", "i", "c", "e", " ", "&", " ", "B", "u", "s", "i", "n", "e", "s", "s">> >>,
       << <<"b", "u", "s", "i", "n", "e", "s", "s">>,
          <<"O", "f", "f", "i", "c", "e", " ", "&", " ", "B", "u", "s", "i", "n", "e", "s", "s">> >>,
       << <<"i", "n", "d", "u", "s", "t", "r", "i", "a", "l">>,
          <<"I", "n", "d", "u", "s", "t", "r", "i", "a", "l", " ", "&", " ", "S", "c", "i", "e", "n", "t", "i", "f", "i", "c">> >> >>

\* str.lower() on the letters of the model's alphabet.
UpperToLower ==
    "A" :> "a" @@ "B" :> "b" @@ "C" :> "c" @@ "D" :> "d" @@ "E" :> "e" @@ "F" :> "f"
 @@ "G" :> "g" @@ "H" :> "h" @@ "I" :> "i" @@ "J" :> "j" @@ "K" :> "k" @@ "L" :> "l"
 @@ "M" :> "m" @@ "N" :> "n" @@ "O" :> "o" @@ "P" :> "p" @@ "Q" :> "q" @@ "R" :> "r"
 @@ "S" :> "s" @@ "T" :> "t" @@ "U" :> "u" @@ "V" :> "v" @@ "W" :> "w" @@ "X" :> "x"
 @@ "Y" :> "y" @@ "Z" :> "z"

Lower(s) == [i \in 1..Len(s) |-> IF s[i] \in DOMAIN UpperToLower THEN UpperToLower[s[i]] ELSE s[i]]

\* sub in s
Contains(s, sub) ==
    \E i \in 0..(Len(s) - Len(sub)) : SubSeq(s, i + 1, i + Len(sub)) = sub

\* for key, category in CATEGORY_MAPPING.items(): if key in text: return category
RECURSIVE FirstCategory(_, _)
FirstCategory(text, i) ==
    IF i > Len(CATEGORY_MAPPING) THEN <<>>
    ELSE IF Contains(text, CATEGORY_MAPPING[i][1]) THEN <<CATEGORY_MAPPING[i][2]>>
    ELSE FirstCategory(text, i + 1)

\* for tag in tags: for key, category in ...: if key in tag: return category
RECURSIVE FirstTagCategory(_)
FirstTagCategory(tags) ==
    IF tags = <<>> THEN <<>>
    ELSE IF FirstCategory(Head(tags), 1) # <<>> THEN FirstCategory(Head(tags), 1)
    ELSE FirstTagCategory(Tail(tags))

\* _categorize_product, the basic mapping (no enhancer).
categorize_basic(product) ==
    LET product_type == Lower(Get(product, "product_type", S_Empty))
        tags == [i \in 1..Len(Get(product, "tags", <<>>)) |-> Lower(Get(product, "tags", <<>>)[i])]
    IN  IF FirstCategory(product_type, 1) # <<>> THEN FirstCategory(product_type, 1)[1]
        ELSE IF FirstTagCategory(tags) # <<>> THEN FirstTagCategory(tags)[1]
        ELSE S_Other

\* _extract_product_properties: the weight of the first variant, when truthy.
extract_product_properties(product) ==
    LET variants == Get(product, "variants", <<>>)
    IN  IF variants # <<>> /\ Get(variants[1], "weight", 0) # 0
        THEN "weight" :> JDict("@type" :> JStr(S_QuantitativeValue)
                            @@ "value" :> JNum(variants[1].weight)
                            @@ "unitCode" :> JStr(Get(variants[1], "weight_unit", S_g)))
        ELSE EmptyDict

\* The test of generate_product_schema that adds hasVariant.
HasVariantTest_Any(variants) == Len(variants) > 0

HasVariantTest(variants) == Len(variants) > 1

\* generate_product_schema with a given description and category (the two
\* values an enhancer may change).
product_schema(product, shop_info, config, today, description, category) ==
    LET imgs == Get(product, "images", <<>>)
        images == [i \in 1..Len(imgs) |-> JStr(imgs[i].src)]
        variants == Get(product, "variants", <<>>)
        schema ==
            "@context" :> JStr(S_ContextSlash)
         @@ "@type" :> JStr(S_Product)
         @@ "name" :> JStr(product.title)
         @@ "description" :> JStr(description)
         @@ "image" :> JList(images)
         @@ "url" :> JStr(ShopUrl(config) \o S_ProductsPath \o product.handle)
         @@ "brand" :> JDict("@type" :> JStr(S_Brand)
                          @@ "name" :> JStr(Get(product, "vendor",
                                                Get(shop_info, "name", S_Unknown))))
         @@ "sku" :> JStr(IF variants # <<>>
                          THEN Get(variants[1], "sku", product.handle)
                          ELSE product.handle)
         @@ "offers" :> JList(generate_offers(variants, shop_info, today))
         @@ "category" :> JStr(category)
        withVariants ==
            IF HasVariantTest(variants)
            THEN "hasVariant" :> JList(generate_variant_schemas(variants)) @@ schema
            ELSE schema
    IN  JDict(extract_product_properties(product) @@ withVariants)

\* generate_product_schema, self.ai_enhancer being None.
generate_product_schema(product, shop_info, config, today) ==
    product_schema(product, shop_info, config, today,
                   clean_html(Get(product, "body_html", S_Empty)),
                   categorize_basic(product))

\* One ListItem of the breadcrumb list.
ListItem(position, name, item) ==
    JDict("@type" :> JStr(S_ListItem)
       @@ "position" :> JNum(position)
       @@ "name" :> JStr(name)
       @@ "item" :> JStr(item))

\* "position": len(breadcrumbs) + 1
NextPosition_NoIncrement(breadcrumbs) == Len(breadcrumbs)

NextPosition(breadcrumbs) == Len(breadcrumbs) + 1

\* The last collection of the list with an id among ids, instead of the first.
FirstMatchingCollection_Last(collections, ids) ==
    LET matching == {k \in 1..Len(collections) :
                        \E i \in 1..Len(ids) : ids[i] = collections[k].id}
    IN  IF matching = {} THEN <<>>
        ELSE <<collections[CHOOSE k \in matching : \A j \in matching : j <= k]>>

\* for collection in collections: if collection['id'] in product_collection_ids: ...; break
RECURSIVE FirstMatchingCollection(_, _)
FirstMatchingCollection(collections, ids) ==
    IF collections = <<>> THEN <<>>
    ELSE IF \E i \in 1..Len(ids) : ids[i] = Head(collections).id THEN <<Head(collections)>>
    ELSE FirstMatchingCollection(Tail(collections), ids)

\* generate_breadcrumb_schema
generate_breadcrumb_schema(product, collections, config) ==
    LET home == <<ListItem(1, S_Home, ShopUrl(config))>>
        colls == Get(product, "collections", <<>>)
        product_collection_ids == [i \in 1..Len(colls) |-> colls[i].id]
        found ==
            IF product_collection_ids # <<>> /\ collections # <<>>
            THEN FirstMatchingCollection(collections, product_collection_ids)
            ELSE <<>>
        withCollection ==
            IF found # <<>>
            THEN Append(home, ListItem(NextPosition(home), found[1].title,
                                       ShopUrl(config) \o S_CollectionsPath \o found[1].handle))
            ELSE home
        breadcrumbs ==
            Append(withCollection,
                   ListItem(NextPosition(withCollection), product.title,
                            ShopUrl(config) \o S_ProductsPath \o product.handle))
    IN  JDict("@context" :> JStr(S_Context)
           @@ "@type" :> JStr(S_BreadcrumbList)
           @@ "itemListElement" :> JList(breadcrumbs))

\* The length beyond which _generate_basic_faq cuts the description.
FAQ_ANSWER_LIMIT == 200

\* "text": description[:200] + "..." if len(description) > 200 else description
BasicFaqAnswer(description) ==
    IF Len(description) > FAQ_ANSWER_LIMIT
    THEN Prefix(description, FAQ_ANSWER_LIMIT) \o S_Ellipsis
    ELSE description

\* SchemaGenerator._generate_basic_faq
generate_basic_faq(product) ==
    LET description == clean_html(Get(product, "body_html", S_Empty))
    IN  JDict("@context" :> JStr(S_Context)
           @@ "@type" :> JStr(S_FAQPage)
           @@ "mainEntity" :> JList(<<
                JDict("@type" :> JStr(S_Question)
                   @@ "name" :> JStr(S_WhatIs \o product.title \o S_QMark)
                   @@ "acceptedAnswer" :> JDict("@type" :> JStr(S_Answer)
                                             @@ "text" :> JStr(BasicFaqAnswer(description))))
              >>))

(***************************************************************************)
(* core/generator.py: the Organization and CollectionPage documents.       *)
(* The phone and email of a shop record are JSON values (the API answers   *)
(* null for a shop without one); its other fields are strings.             *)
(***************************************************************************)
\* if phone := shop_info.get('phone'): contact["telephone"] = phone
ContactField(shop_info, field, key) ==
    IF Truthy(Get(shop_info, field, JNull)) THEN key :> shop_info[field] ELSE EmptyDict

\* The test `if contact:` of _extract_contact_info.
HasContact_Always(contact) == TRUE

HasContact(contact) == DOMAIN contact # {}

\* SchemaGenerator._extract_contact_info: a ContactPoint, or None (<<>>).
extract_contact_info(shop_info) ==
    LET contact == ContactField(shop_info, "email", "email")
                @@ ContactField(shop_info, "phone", "telephone")
    IN  IF HasContact(contact)
        THEN <<JDict("@type" :> JStr(S_ContactPoint)
                  @@ "contactType" :> JStr(S_CustomerService)
                  @@ contact)>>
        ELSE <<>>

address_fields == <<"address1", "city", "province", "zip", "country">>

\* SchemaGenerator._extract_address: a PostalAddress, or None (<<>>).
extract_address(shop_info) ==
    IF \E i \in 1..Len(address_fields) : Get(shop_info, address_fields[i], S_Empty) # S_Empty
    THEN <<JDict("@type" :> JStr(S_PostalAddress)
              @@ "streetAddress" :> JStr(Get(shop_info, "address1", S_Empty))
              @@ "addressLocality" :> JStr(Get(shop_info, "city", S_Empty))
              @@ "addressRegion" :> JStr(Get(shop_info, "province", S_Empty))
              @@ "postalCode" :> JStr(Get(shop_info, "zip", S_Empty))
              @@ "addressCountry" :> JStr(Get(shop_info, "country", S_Empty)))>>
    ELSE <<>>

social_fields ==
    << <<"twitter", S_TwitterCom>>, <<"facebook", S_FacebookCom>>,
       <<"instagram", S_InstagramCom>>, <<"linkedin", S_LinkedinCom>> >>

\* SchemaGenerator._extract_social_links
RECURSIVE SocialLinksFrom(_, _)
SocialLinksFrom(shop_info, i) ==
    IF i > Len(social_fields) THEN <<>>
    ELSE (IF Get(shop_info, social_fields[i][1], S_Empty) # S_Empty
          THEN <<JStr(social_fields[i][2] \o shop_info[social_fields[i][1]])>>
          ELSE <<>>) \o SocialLinksFrom(shop_info, i + 1)

extract_social_links(shop_info) == SocialLinksFrom(shop_info, 1)

\* if value := f(shop_info): schema[key] = value
WhenSome(key, optional) == IF optional # <<>> THEN key :> optional[1] ELSE EmptyDict

\* SchemaGenerator.generate_organization_schema
generate_organization_schema(shop_info, config) ==
    JDict(("@context" :> JStr(S_Context)
        @@ "@type" :> JStr(S_Organization)
        @@ "name" :> JStr(Get(shop_info, "name", S_Empty))
        @@ "url" :> JStr(S_Https \o Get(shop_info, "domain",
                                        config.shop_domain \o S_MyshopifyCom))
        @@ "description" :> JStr(clean_html(Get(shop_info, "description", S_Empty))))
        @@ WhenSome("contactPoint", extract_contact_info(shop_info))
        @@ WhenSome("address", extract_address(shop_info))
        @@ (IF extract_social_links(shop_info) # <<>>
            THEN "sameAs" :> JList(extract_social_links(shop_info))
            ELSE EmptyDict))

\* SchemaGenerator._generate_collection_schema
generate_collection_schema(collection, shop_info, config) ==
    JDict("@context" :> JStr(S_Context)
       @@ "@type" :> JStr(S_CollectionPage)
       @@ "name" :> JStr(collection.title)
       @@ "description" :> JStr(clean_html(Get(collection, "body_html", S_Empty)))
       @@ "url" :> JStr(ShopUrl(config) \o S_CollectionsPath \o collection.handle)
       @@ "isPartOf" :> JDict("@type" :> JStr(S_WebSite)
                           @@ "name" :> JStr(Get(shop_info, "name", S_Empty))
                           @@ "url" :> JStr(ShopUrl(config))))

(***************************************************************************)
(* utils/helpers.py: extract_materials.                                    *)
(***************************************************************************)
\* str.title(): a letter after a character that is no letter is made upper
\* case, every other letter lower case.
IsLetter(c) == c \in DOMAIN UpperToLower \/ \E u \in DOMAIN UpperToLower : UpperToLower[u] = c

Upper(c) == IF \E u \in DOMAIN UpperToLower : UpperToLower[u] = c
            THEN CHOOSE u \in DOMAIN UpperToLower : UpperToLower[u] = c
            ELSE c

Title(s) ==
    [i \in 1..Len(s) |-> IF i = 1 \/ ~IsLetter(s[i - 1]) THEN Upper(s[i])
                          ELSE Lower(<<s[i]>>)[1]]

\* The vocabulary of extract_materials, in the order of the list.
materials ==
    <<<<"c", "o", "t", "t", "o", "n">>,
      <<"p", "o", "l", "y", "e", "s", "t", "e", "r">>,
      <<"s", "i", "l", "k">>,
      <<"w", "o", "o", "l">>,
      <<"l", "i", "n", "e", "n">>,
      <<"l", "e", "a", "t", "h", "e", "r">>,
      <<"s", "u", "e", "d", "e">>,
      <<"d", "e", "n", "i", "m">>,
      <<"c", "a", "s", "h", "m", "e", "r", "e">>,
      <<"b", "a", "m", "b", "o", "o">>,
      <<"o", "r", "g", "a", "n", "i", "c", " ", "c", "o", "t", "t", "o", "n">>,
      <<"r", "e", "c", "y", "c", "l", "e", "d", " ", "p", "o", "l", "y", "e", "s", "t", "e", "r">>,
      <<"s", "t", "a", "i", "n", "l", "e", "s", "s", " ", "s", "t", "e", "e", "l">>,
      <<"a", "l", "u", "m", "i", "n", "u", "m">>,
      <<"b", "r", "a", "s", "s">>,
      <<"c", "o", "p", "p", "e", "r">>,
      <<"s", "i", "l", "v", "e", "r">>,
      <<"g", "o", "l", "d">>,
      <<"p", "l", "a", "s", "t", "i", "c">>,
      <<"w", "o", "o", "d">>,
      <<"b", "a", "m", "b", "o", "o">>,
      <<"c", "e", "r", "a", "m", "i", "c">>,
      <<"g", "l", "a", "s", "s">>,
      <<"r", "u", "b", "b", "e", "r">>>>

\* for material in materials: if material in text_lower: append(material.title())
RECURSIVE FoundMaterials(_, _)
FoundMaterials(vocabulary, text_lower) ==
    IF vocabulary = <<>> THEN <<>>
    ELSE (IF Contains(text_lower, Head(vocabulary)) THEN <<Title(Head(vocabulary))>> ELSE <<>>)
         \o FoundMaterials(Tail(vocabulary), text_lower)

\* extract_materials
extract_materials(text) ==
    IF text = <<>> THEN <<>> ELSE FoundMaterials(materials, Lower(text))

(***************************************************************************)
(* The catalog records the builder is applied to.                          *)
(***************************************************************************)
\* All sequences over S of length at most n.
SeqsUpTo(S, n) == UNION {[1..k -> S] : k \in 0..n}

\* A key that is absent, or present with one of the values.
Optional(key, values) == {EmptyDict} \cup {key :> v : v \in values}

\* One day the builder runs on.
Today == 20000

Config == [shop_domain |-> S_shop]

Variants ==
    {("title" :> S_Small @@ "price" :> S_Price1 @@ "sku" :> S_SkuS) @@ inv :
        inv \in Optional("inventory_quantity", {-1, 0, 5})}
    \cup {("title" :> S_Large @@ "price" :> S_Price2 @@ "inventory_quantity" :> 0) @@ sku :
        sku \in Optional("sku", {S_Empty, S_SkuL})}
    \cup {"inventory_quantity" :> 5 @@ "weight" :> 250}

Shops == {EmptyDict, "name" :> S_ShopName @@ "currency" :> S_EUR}

Products ==
    {("id" :> 1 @@ "title" :> S_Widget @@ "handle" :> S_widget)
        @@ body @@ vendor @@ variants @@ images :
        body \in Optional("body_html", {S_Empty, S_BodyShort}),
        vendor \in Optional("vendor", {S_Empty, S_Acme}),
        variants \in Optional("variants", SeqsUpTo(Variants, MaxVariants)),
        images \in Optional("images", {<<[src |-> S_Img1]>>})}

\* Products for the two keyword scans: a keyword in the product type, in a
\* tag, in the title only, and different keywords in the type and in a tag.
CategoryProducts ==
    {("id" :> 2 @@ "handle" :> S_widget) @@ rest :
        rest \in {"title" :> S_Widget @@ "product_type" :> S_electronics
                      @@ "tags" :> <<S_phone>>,
                  "title" :> S_Widget @@ "tags" :> <<S_Tea, S_Books>>,
                  "title" :> S_Books,
                  "title" :> S_Widget @@ "product_type" :> S_books @@ "tags" :> <<S_shoes>>}}

\* Shop records for the Organization document.
OrgShops ==
    {name @@ domain @@ description @@ phone @@ email @@ address1 @@ city @@ twitter
        @@ linkedin :
        name \in Optional("name", {S_ShopName}),
        domain \in Optional("domain", {S_Domain}),
        description \in Optional("description", {S_ShopDesc}),
        phone \in Optional("phone", {JNull, JStr(S_Empty), JStr(S_Phone)}),
        email \in Optional("email", {JNull, JStr(S_Empty), JStr(S_Email)}),
        address1 \in Optional("address1", {S_Street}),
        city \in Optional("city", {S_Empty, S_City}),
        twitter \in Optional("twitter", {S_teashop}),
        linkedin \in Optional("linkedin", {S_Empty, S_teashop})}

MaxCollections == 2

Collections ==
    {[id |-> 1, title |-> S_Teas, handle |-> S_teas],
     [id |-> 2, title |-> S_Gifts, handle |-> S_gifts]}

BreadcrumbProducts ==
    {("id" :> 1 @@ "title" :> S_Widget @@ "handle" :> S_widget) @@ colls :
        colls \in Optional("collections", SeqsUpTo({[id |-> 1], [id |-> 2], [id |-> 3]},
                                                   MaxCollections))}

\* Descriptions at the limit of the basic FAQ answer and one beyond it.
S_Body200 == [i \in 1..FAQ_ANSWER_LIMIT |-> "x"]
S_Body201 == [i \in 1..(FAQ_ANSWER_LIMIT + 1) |-> "x"]

FaqProducts ==
    {("id" :> 1 @@ "title" :> title @@ "handle" :> S_widget) @@ body :
        title \in {S_Widget, S_Teas},
        body \in Optional("body_html", {S_Empty, S_BodyBlank, S_BodyShort, S_Body200, S_Body201})}

(***************************************************************************)
(* The builder as a state machine: a call of one of its public functions   *)
(* on some catalog records, then the return to the caller.                 *)
(***************************************************************************)
NoCall == [op |-> "none"]

InitGen == pc = "idle" /\ call = NoCall /\ ret = JNull

GenerateProductSchema ==
    /\ pc = "idle"
    /\ \E product \in Products \cup CategoryProducts, shop_info \in Shops :
         /\ call' = [op |-> "generate_product_schema", product |-> product,
                     shop_info |-> shop_info]
         /\ ret' = generate_product_schema(product, shop_info, Config, Today)
    /\ pc' = "done"

GenerateBreadcrumbSchema ==
    /\ pc = "idle"
    /\ \E product \in BreadcrumbProducts, collections \in SeqsUpTo(Collections, MaxCollections) :
         /\ call' = [op |-> "generate_breadcrumb_schema", product |-> product,
                     collections |-> collections]
         /\ ret' = generate_breadcrumb_schema(product, collections, Config)
    /\ pc' = "done"

\* generate_faq_schema, self.ai_enhancer being None: the basic FAQ.
GenerateFaqSchema ==
    /\ pc = "idle"
    /\ \E product \in FaqProducts :
         /\ call' = [op |-> "generate_faq_schema", product |-> product]
         /\ ret' = generate_basic_faq(product)
    /\ pc' = "done"

GenerateOrganizationSchema ==
    /\ pc = "idle"
    /\ \E shop_info \in OrgShops :
         /\ call' = [op |-> "generate_organization_schema", shop_info |-> shop_info]
         /\ ret' = generate_organization_schema(shop_info, Config)
    /\ pc' = "done"

\* _generate_collection_schema, as generate_complete_schema_package calls it.
GenerateCollectionSchema ==
    /\ pc = "idle"
    /\ \E collection \in Collections, body \in Optional("body_html", {S_BodyShort}),
          shop_info \in Shops :
         /\ call' = [op |-> "generate_collection_schema", collection |-> collection @@ body,
                     shop_info |-> shop_info]
         /\ ret' = generate_collection_schema(collection @@ body, shop_info, Config)
    /\ pc' = "done"

\* helpers.extract_materials on a description.
MaterialTexts ==
    {S_Empty, S_TextBamboo, S_TextOrganic, S_TextGold, S_TextWooden, S_TextPlain,
     S_TextRecycled, S_BodyShort}

ExtractMaterials ==
    /\ pc = "idle"
    /\ \E text \in MaterialTexts :
         /\ call' = [op |-> "extract_materials", text |-> text]
         /\ ret' = JList([i \in 1..Len(extract_materials(text)) |->
                             JStr(extract_materials(text)[i])])
    /\ pc' = "done"

Return ==
    /\ pc = "done"
    /\ pc' = "idle"
    /\ call' = NoCall
    /\ ret' = JNull

NextGen ==
    \/ GenerateProductSchema
    \/ GenerateBreadcrumbSchema
    \/ GenerateFaqSchema
    \/ GenerateOrganizationSchema
    \/ GenerateCollectionSchema
    \/ ExtractMaterials
    \/ Return

SpecGen == InitGen /\ [][NextGen]_vars

(***************************************************************************)
(* Properties of the builder.                                              *)
(***************************************************************************)
Done(op) == pc = "done" /\ call.op = op

\* C1: generate_product_schema emits one Offer per variant, in variant
\* order, and the i-th offer is InStock iff the i-th variant has an
\* inventory_quantity strictly greater than 0 (zero, negative and absent
\* counts give OutOfStock).
C1_OffersFollowVariants ==
    Done("generate_product_schema") =>
        LET variants == Get(call.product, "variants", <<>>)
            offers == ret.dict["offers"].list
        IN  /\ Len(offers) = Len(variants)
            /\ \A i \in 1..Len(variants) :
                 /\ offers[i].dict["@type"].str = S_Offer
                 /\ offers[i].dict["price"].str = Get(variants[i], "price", S_Zero)
                 /\ offers[i].dict["sku"].str = Get(variants[i], "sku", S_Empty)
                 /\ offers[i].dict["availability"].str \in {S_InStock, S_OutOfStock}
                 /\ offers[i].dict["availability"].str = S_InStock
                      <=> /\ "inventory_quantity" \in DOMAIN variants[i]
                          /\ variants[i].inventory_quantity > 0

\* The scenario of C1: inventories 5 and 0 give [InStock, OutOfStock].
C1_Witness ==
    /\ Done("generate_product_schema")
    /\ Len(Get(call.product, "variants", <<>>)) = 2
    /\ Get(call.product.variants[1], "inventory_quantity", 0) = 5
    /\ Get(call.product.variants[2], "inventory_quantity", 1) = 0
    /\ ret.dict["offers"].list[1].dict["availability"].str = S_InStock
    /\ ret.dict["offers"].list[2].dict["availability"].str = S_OutOfStock

\* C2: the breadcrumb list starts with the ListItem "Home" at position 1,
\* its positions are exactly 1, 2, ..., k, and its last element is the
\* entry of the product itself.
C2_BreadcrumbPositions ==
    Done("generate_breadcrumb_schema") =>
        LET items == ret.dict["itemListElement"].list
            last == items[Len(items)].dict
        IN  /\ Len(items) >= 2
            /\ items[1].dict["@type"].str = S_ListItem
            /\ items[1].dict["position"].num = 1
            /\ items[1].dict["name"].str = S_Home
            /\ \A i \in 1..Len(items) : items[i].dict["position"].num = i
            /\ last["name"].str = call.product.title
            /\ last["item"].str = ShopUrl(Config) \o S_ProductsPath \o call.product.handle

\* A product of one listed collection: Home, the collection, the product.
C2_Witness ==
    /\ Done("generate_breadcrumb_schema")
    /\ Len(ret.dict["itemListElement"].list) = 3
    /\ ret.dict["itemListElement"].list[2].dict["name"].str = S_Gifts
    /\ ret.dict["itemListElement"].list[3].dict["position"].num = 3

\* C6 (as claimed): with the enhancer disabled the FAQ has exactly one
\* Question built from the title, and its answer is never the empty string:
\* a product whose description is empty gets the static fallback sentence.
C6_BasicFaqAnswerNeverEmpty ==
    Done("generate_faq_schema") =>
        LET entities == ret.dict["mainEntity"].list
        IN  /\ ret.dict["@type"].str = S_FAQPage
            /\ Len(entities) = 1
            /\ entities[1].dict["name"].str = S_WhatIs \o call.product.title \o S_QMark
            /\ entities[1].dict["acceptedAnswer"].dict["text"].str # S_Empty

\* C10: the Product schema has the key hasVariant iff the product has at
\* least 2 variants, and then it has one entry per variant, in variant order.
C10_HasVariantIffTwoVariants ==
    Done("generate_product_schema") =>
        LET variants == Get(call.product, "variants", <<>>)
        IN  /\ "hasVariant" \in DOMAIN ret.dict <=> Len(variants) >= 2
            /\ "hasVariant" \in DOMAIN ret.dict =>
                 LET entries == ret.dict["hasVariant"].list
                 IN  /\ Len(entries) = Len(variants)
                     /\ \A i \in 1..Len(variants) :
                          /\ entries[i].dict["name"].str = Get(variants[i], "title", S_Empty)
                          /\ entries[i].dict["sku"].str = Get(variants[i], "sku", S_Empty)
                          /\ entries[i].dict["offers"].dict["price"].str
                               = Get(variants[i], "price", S_Zero)

\* Two different variants, listed under hasVariant in their order.
C10_Witness ==
    /\ Done("generate_product_schema")
    /\ Len(Get(call.product, "variants", <<>>)) = 2
    /\ Get(call.product.variants[1], "title", S_Empty) = S_Large
    /\ Get(call.product.variants[2], "title", S_Empty) = S_Small
    /\ "hasVariant" \in DOMAIN ret.dict
    /\ ret.dict["hasVariant"].list[1].dict["name"].str = S_Large

(***************************************************************************)
(* validation/schema_validator.py: SchemaValidator.                        *)
(***************************************************************************)
Raise(exception) == [raise |-> exception]
Raised(r) == DOMAIN r = {"raise"}

DigitChars == <<"0", "1", "2", "3", "4", "5", "6", "7", "8", "9">>
Digits == {DigitChars[i] : i \in 1..10}
Letters == {UpperToLower[c] : c \in DOMAIN UpperToLower}

\* str(n) of a natural number, as the f-strings of the messages render it.
RECURSIVE IntStr(_)
IntStr(n) ==
    IF n < 10 THEN <<DigitChars[n + 1]>>
    ELSE IntStr(n \div 10) \o <<DigitChars[(n % 10) + 1]>>

\* key in schema, schema.get(key) and "key not in schema or not schema[key]".
Has(schema, key) == key \in DOMAIN schema.dict
DictGet(schema, key) == IF Has(schema, key) THEN schema.dict[key] ELSE JNull
MissingOrEmpty_AbsentOnly(schema, key) == ~Has(schema, key)

MissingOrEmpty(schema, key) == ~Has(schema, key) \/ ~Truthy(schema.dict[key])

REQUIRED_PRODUCT_FIELDS == <<"name", "description", "image", "offers", "brand">>
REQUIRED_ORGANIZATION_FIELDS == <<"name", "url">>

\* The result every validate_*_schema starts from.
NewResult(schema_type) ==
    [valid |-> TRUE, errors |-> <<>>, warnings |-> <<>>, schema_type |-> schema_type]

\* result['errors'].append(msg); result['valid'] = False
AddError_KeepValid(result, msg) == [result EXCEPT !.errors = Append(@, msg)]

AddError(result, msg) == [result EXCEPT !.errors = Append(@, msg), !.valid = FALSE]

\* result['warnings'].append(msg)
AddWarning(result, msg) == [result EXCEPT !.warnings = Append(@, msg)]

\* if schema.get('@type') != T: error "Schema type must be 'T'"
CheckType(result, schema, type) ==
    IF DictGet(schema, "@type") # JStr(type)
    THEN AddError(result, S_TypeMustBe \o type \o S_Quote)
    ELSE result

\* for field in fields: if field not in schema or not schema[field]: error
RECURSIVE CheckRequired(_, _, _)
CheckRequired(result, schema, fields) ==
    IF fields = <<>> THEN result
    ELSE CheckRequired(IF MissingOrEmpty(schema, Head(fields))
                       THEN AddError(result, S_MissingRequired \o KeyChars[Head(fields)])
                       ELSE result,
                       schema, Tail(fields))

\* The split of a host name at its dots.
RECURSIVE SplitDots(_, _)
SplitDots(s, cur) ==
    IF s = <<>> THEN <<cur>>
    ELSE IF Head(s) = "." THEN <<cur>> \o SplitDots(Tail(s), <<>>)
    ELSE SplitDots(Tail(s), Append(cur, Head(s)))

\* The parts of the regular expression of _is_valid_url (IGNORECASE; the
\* text is lower-cased before it is matched):
\*   ^https?://(domain|localhost|ip)(:port)?(/?|[/?]\S+)$
\* [A-Z0-9](?:[A-Z0-9-]{0,61}[A-Z0-9])?
IsLabel(p) ==
    /\ Len(p) \in 1..63
    /\ p[1] \in Letters \cup Digits
    /\ p[Len(p)] \in Letters \cup Digits
    /\ \A i \in 1..Len(p) : p[i] \in Letters \cup Digits \cup {"-"}

\* [A-Z]{2,6}
IsTld(p) == Len(p) \in 2..6 /\ \A i \in 1..Len(p) : p[i] \in Letters

\* (?:label\.)+tld\.? on the dot-separated parts of the host
IsDomain(parts) ==
    \E labels \in {IF Len(parts) > 1 /\ parts[Len(parts)] = <<>>
                   THEN SubSeq(parts, 1, Len(parts) - 1) ELSE parts} :
        /\ Len(labels) >= 2
        /\ IsTld(labels[Len(labels)])
        /\ \A i \in 1..(Len(labels) - 1) : IsLabel(labels[i])

\* \d{1,3}\.\d{1,3}\.\d{1,3}\.\d{1,3}
IsIp(parts) ==
    /\ Len(parts) = 4
    /\ \A i \in 1..4 :
         Len(parts[i]) \in 1..3 /\ \A j \in 1..Len(parts[i]) : parts[i][j] \in Digits

\* The length of what (?::\d+)? takes of rest; 1 is a colon without digits.
PortLen(rest) ==
    IF rest # <<>> /\ rest[1] = ":"
    THEN 1 + Cardinality({i \in 2..Len(rest) : \A j \in 2..i : rest[j] \in Digits})
    ELSE 0

\* (?:/?|[/?]\S+)$
IsPath(path) ==
    \/ path = <<>>
    \/ path = <<"/">>
    \/ /\ Len(path) >= 2
       /\ path[1] \in {"/", "?"}
       /\ \A i \in 2..Len(path) : path[i] \notin Whitespace

\* The host is what follows the scheme up to the first ":", "/" or "?".
HostEnd(after) ==
    LET stops == {i \in 1..Len(after) : after[i] \in {":", "/", "?"}}
    IN  IF stops = {} THEN Len(after) + 1 ELSE CHOOSE i \in stops : \A j \in stops : i <= j

SchemeLen(l) ==
    IF StartsWith(l, S_Https) THEN Len(S_Https)
    ELSE IF StartsWith(l, S_Http) THEN Len(S_Http) ELSE 0

\* url_pattern.match(url) is not None
UrlMatches(url) ==
    \E l \in {Lower(url)} :
    \E after \in {SubSeq(l, SchemeLen(l) + 1, Len(l))} :
    \E hostEnd \in {HostEnd(after)} :
    \E parts \in {SplitDots(SubSeq(after, 1, hostEnd - 1), <<>>)} :
    \E rest \in {SubSeq(after, hostEnd, Len(after))} :
    \E portLen \in {PortLen(rest)} :
        /\ SchemeLen(l) > 0
        /\ SubSeq(after, 1, hostEnd - 1) = S_localhost \/ IsDomain(parts) \/ IsIp(parts)
        /\ portLen # 1
        /\ IsPath(SubSeq(rest, portLen + 1, Len(rest)))

\* _is_valid_url: neither an empty value nor a non-string is a URL.
is_valid_url(url) == Truthy(url) /\ IsStr(url) /\ UrlMatches(url.str)

\* _validate_offers, the body of the loop for the offer at index i (from 0).
ValidateOffer(result, offer, i) ==
    LET n == S_OfferSpace \o IntStr(i + 1)
        typed == IF DictGet(offer, "@type") # JStr(S_Offer)
                 THEN AddError(result, n \o S_MustHaveType \o S_Offer \o S_Quote)
                 ELSE result
        price == IF ~Has(offer, "price")
                 THEN AddError(typed, n \o S_OfferMissingRequired \o KeyChars["price"])
                 ELSE typed
        currency == IF ~Has(offer, "priceCurrency")
                    THEN AddError(price, n \o S_OfferMissingRequired \o KeyChars["priceCurrency"])
                    ELSE price
        avail == IF ~Has(offer, "availability")
                 THEN AddError(currency, n \o S_OfferMissingRequired \o KeyChars["availability"])
                 ELSE currency
    IN  IF ~IsDict(offer) THEN AddError(result, n \o S_MustBeObject)
        ELSE IF /\ Has(offer, "availability")
                /\ IsStr(offer.dict["availability"])
                /\ ~StartsWith(offer.dict["availability"].str, S_ContextSlash)
             THEN AddError(avail, n \o S_AvailabilityShould)
        ELSE avail

RECURSIVE ValidateOffersFrom(_, _, _)
ValidateOffersFrom(result, offers, i) ==
    IF i >= Len(offers) THEN result
    ELSE ValidateOffersFrom(ValidateOffer(result, offers[i + 1], i), offers, i + 1)

\* _validate_offers: a single offer is validated as a list of one.
validate_offers(offers) ==
    ValidateOffersFrom([valid |-> TRUE, errors |-> <<>>],
                       IF IsList(offers) THEN offers.list ELSE <<offers>>, 0)

\* _validate_images, the body of the loop for the image at index i (from 0).
\* Only warnings are appended: 'valid' stays as it was initialised.
ValidateImage(result, image, i) ==
    LET n == S_ImageSpace \o IntStr(i + 1)
        typed == IF Has(image, "@type") /\ image.dict["@type"] # JStr(S_ImageObject)
                 THEN AddWarning(result, n \o S_ShouldHaveType)
                 ELSE result
    IN  IF IsStr(image)
        THEN IF ~is_valid_url(image) THEN AddWarning(result, n \o S_HasInvalidUrl) ELSE result
        ELSE IF IsDict(image)
        THEN IF ~Has(image, "url") THEN AddWarning(typed, n \o S_MissingUrl) ELSE typed
        ELSE result

RECURSIVE ValidateImagesFrom(_, _, _)
ValidateImagesFrom(result, images, i) ==
    IF i >= Len(images) THEN result
    ELSE ValidateImagesFrom(ValidateImage(result, images[i + 1], i), images, i + 1)

\* _validate_images
validate_images(images) ==
    LET list == IF IsList(images) THEN images.list
                ELSE IF Truthy(images) THEN <<images>> ELSE <<>>
        result == [valid |-> TRUE, warnings |-> <<>>]
    IN  IF list = <<>> THEN AddWarning(result, S_NoImages)
        ELSE ValidateImagesFrom(result, list, 0)

\* for field in recommended_fields: warning "Recommended field missing"
RECURSIVE CheckRecommended(_, _, _, _)
CheckRecommended(result, schema, fields, emptyCounts) ==
    IF fields = <<>> THEN result
    ELSE CheckRecommended(
            IF ~Has(schema, Head(fields))
               \/ (emptyCounts /\ ~Truthy(schema.dict[Head(fields)]))
            THEN AddWarning(result, S_RecommendedMissing \o KeyChars[Head(fields)])
            ELSE result,
            schema, Tail(fields), emptyCounts)

\* validate_product_schema.  schema.get on a value that is no dict raises
\* AttributeError.
validate_product_schema(schema) ==
    IF ~IsDict(schema) THEN Raise("AttributeError")
    ELSE
    LET typed == CheckType(NewResult(S_Product), schema, S_Product)
        required == CheckRequired(typed, schema, REQUIRED_PRODUCT_FIELDS)
        offers_validation == validate_offers(schema.dict["offers"])
        offers == IF Has(schema, "offers") /\ ~offers_validation.valid
                  THEN [required EXCEPT !.errors = @ \o offers_validation.errors,
                                        !.valid = FALSE]
                  ELSE required
        image_validation == validate_images(schema.dict["image"])
        images == IF Has(schema, "image") /\ ~image_validation.valid
                  THEN [offers EXCEPT !.warnings = @ \o image_validation.warnings]
                  ELSE offers
    IN  CheckRecommended(images, schema, <<"brand", "sku", "description", "category">>, TRUE)

\* validate_organization_schema
validate_organization_schema(schema) ==
    IF ~IsDict(schema) THEN Raise("AttributeError")
    ELSE
    LET typed == CheckType(NewResult(S_Organization), schema, S_Organization)
        required == CheckRequired(typed, schema, REQUIRED_ORGANIZATION_FIELDS)
        url == IF Has(schema, "url") /\ ~is_valid_url(schema.dict["url"])
               THEN AddError(required, S_InvalidUrl)
               ELSE required
    IN  CheckRecommended(url, schema,
                         <<"description", "contactPoint", "address", "sameAs">>, FALSE)

\* validate_breadcrumb_schema, the body of the loop for the item at index i.
ValidateBreadcrumbItem(result, item, i) ==
    LET n == S_BreadcrumbItem \o IntStr(i + 1)
        typed == IF DictGet(item, "@type") # JStr(S_ListItem)
                 THEN AddError(result, n \o S_MustHaveType \o S_ListItem \o S_Quote)
                 ELSE result
        position == IF ~Has(item, "position") THEN AddError(typed, n \o S_MissingPosition)
                    ELSE typed
    IN  IF ~IsDict(item) THEN AddError(result, n \o S_MustBeObject)
        ELSE IF ~Has(item, "name") THEN AddError(position, n \o S_MissingName)
        ELSE position

RECURSIVE ValidateBreadcrumbItemsFrom(_, _, _)
ValidateBreadcrumbItemsFrom(result, items, i) ==
    IF i >= Len(items) THEN result
    ELSE ValidateBreadcrumbItemsFrom(ValidateBreadcrumbItem(result, items[i + 1], i),
                                     items, i + 1)

\* validate_breadcrumb_schema
validate_breadcrumb_schema(schema) ==
    IF ~IsDict(schema) THEN Raise("AttributeError")
    ELSE
    LET typed == CheckType(NewResult(S_BreadcrumbList), schema, S_BreadcrumbList)
        items == schema.dict["itemListElement"]
    IN  IF ~Has(schema, "itemListElement")
        THEN AddError(typed, S_MissingRequired \o KeyChars["itemListElement"])
        ELSE IF ~IsList(items) \/ Len(items.list) = 0
        THEN AddError(typed, S_ItemListNonEmpty)
        ELSE ValidateBreadcrumbItemsFrom(typed, items.list, 0)

\* validate_faq_schema, the body of the loop for the entity at index i.
ValidateFaqItem(result, entity, i) ==
    LET n == S_FaqItem \o IntStr(i + 1)
        typed == IF DictGet(entity, "@type") # JStr(S_Question)
                 THEN AddError(result, n \o S_MustHaveType \o S_Question \o S_Quote)
                 ELSE result
        named == IF ~Has(entity, "name") THEN AddError(typed, n \o S_MissingQuestionName)
                 ELSE typed
        answer == entity.dict["acceptedAnswer"]
    IN  IF ~IsDict(entity) THEN AddError(result, n \o S_MustBeObject)
        ELSE IF ~Has(entity, "acceptedAnswer") THEN AddError(named, n \o S_MissingAcceptedAnswer)
        ELSE IF ~IsDict(answer) THEN AddError(named, n \o S_AnswerMustBeObject)
        ELSE IF DictGet(answer, "@type") # JStr(S_Answer)
             THEN AddError(named, n \o S_AnswerMustHaveType)
        ELSE IF ~Has(answer, "text") THEN AddError(named, n \o S_AnswerMissingText)
        ELSE named

RECURSIVE ValidateFaqItemsFrom(_, _, _)
ValidateFaqItemsFrom(result, entities, i) ==
    IF i >= Len(entities) THEN result
    ELSE ValidateFaqItemsFrom(ValidateFaqItem(result, entities[i + 1], i), entities, i + 1)

\* validate_faq_schema
validate_faq_schema(schema) ==
    IF ~IsDict(schema) THEN Raise("AttributeError")
    ELSE
    LET typed == CheckType(NewResult(S_FAQPage), schema, S_FAQPage)
        entities == schema.dict["mainEntity"]
    IN  IF ~Has(schema, "mainEntity")
        THEN AddError(typed, S_MissingRequired \o KeyChars["mainEntity"])
        ELSE IF ~IsList(entities) \/ Len(entities.list) = 0
        THEN AddError(typed, S_MainEntityNonEmpty)
        ELSE ValidateFaqItemsFrom(typed, entities.list, 0)

\* constants.GOOGLE_RICH_RESULTS_REQUIREMENTS, in the order of its keys.
GOOGLE_RICH_RESULTS_REQUIREMENTS ==
    << [type |-> S_Product,
        required |-> <<"name", "image", "offers">>,
        recommended |-> <<"description", "brand", "sku", "aggregateRating">>,
        image_requirements |-> <<[min_width |-> 160, min_height |-> 90]>>],
       [type |-> S_Review,
        required |-> <<"reviewBody", "author", "reviewRating">>,
        recommended |-> <<"datePublished", "publisher">>,
        image_requirements |-> <<>>],
       [type |-> S_FAQ,
        required |-> <<"mainEntity">>,
        recommended |-> <<"name">>,
        image_requirements |-> <<>>] >>

\* _get_schema_type: the @type of a dict, else the @type of the first typed
\* item of its @graph, else None.
get_schema_type(schema) ==
    IF ~IsDict(schema) THEN JNull
    ELSE IF Has(schema, "@type") THEN schema.dict["@type"]
    ELSE IF Has(schema, "@graph") /\ IsList(schema.dict["@graph"])
    THEN LET graph == schema.dict["@graph"].list
             typed == {i \in 1..Len(graph) : IsDict(graph[i]) /\ Has(graph[i], "@type")}
         IN  IF typed = {} THEN JNull
             ELSE graph[CHOOSE i \in typed : \A j \in typed : i <= j].dict["@type"]
    ELSE JNull

\* for field in requirements['required']: error, not eligible
RECURSIVE CheckGoogleRequired(_, _, _)
CheckGoogleRequired(result, schema, fields) ==
    IF fields = <<>> THEN result
    ELSE CheckGoogleRequired(
            IF MissingOrEmpty(schema, Head(fields))
            THEN [AddError(result, S_GoogleRequires \o KeyChars[Head(fields)])
                    EXCEPT !.eligible_for_rich_results = FALSE]
            ELSE result,
            schema, Tail(fields))

\* for field in requirements['recommended']: warning
RECURSIVE CheckGoogleRecommended(_, _, _)
CheckGoogleRecommended(result, schema, fields) ==
    IF fields = <<>> THEN result
    ELSE CheckGoogleRecommended(
            IF MissingOrEmpty(schema, Head(fields))
            THEN AddWarning(result, S_GoogleRecommends \o KeyChars[Head(fields)])
            ELSE result,
            schema, Tail(fields))

\* The entry of the rule table under the key schema_type, if any.
GoogleRequirements(schema_type) ==
    {r \in {GOOGLE_RICH_RESULTS_REQUIREMENTS[i] :
                i \in 1..Len(GOOGLE_RICH_RESULTS_REQUIREMENTS)} :
        JStr(r.type) = schema_type}

\* validate_against_google_requirements.  `schema_type in TABLE` hashes
\* schema_type: a list or a dict is unhashable and raises TypeError.
validate_against_google_requirements(schema) ==
    LET schema_type == get_schema_type(schema)
        start == [valid |-> TRUE, errors |-> <<>>, warnings |-> <<>>,
                  eligible_for_rich_results |-> TRUE]
        requirements == CHOOSE r \in GoogleRequirements(schema_type) : TRUE
        required == CheckGoogleRequired(start, schema, requirements.required)
        recommended == CheckGoogleRecommended(required, schema, requirements.recommended)
        reqs == requirements.image_requirements
    IN  IF IsList(schema_type) \/ IsDict(schema_type) THEN Raise("TypeError")
        ELSE IF GoogleRequirements(schema_type) = {} THEN start
        ELSE IF schema_type = JStr(S_Product) /\ Has(schema, "image") /\ reqs # <<>>
        THEN AddWarning(recommended,
                        S_EnsureImages \o IntStr(reqs[1].min_width) \o S_x
                            \o IntStr(reqs[1].min_height) \o S_Pixels)
        ELSE recommended

(***************************************************************************)
(* The documents the validators are applied to.                            *)
(***************************************************************************)
MaxOffers == 2
MaxItems == 2
MaxEntities == 2

\* The sequences over S of length 2 to n.
SeqsFrom2(S, n) == UNION {[1..k -> S] : k \in 2..n}

\* Root documents that are no non-empty object.
RootShapes ==
    {JNull, JBool(TRUE), JNum(1), JStr(S_Widget), JList(<<>>), JDict(EmptyDict)}

GoodOffer ==
    JDict("@type" :> JStr(S_Offer) @@ "price" :> JStr(S_Price1)
       @@ "priceCurrency" :> JStr(S_USD) @@ "availability" :> JStr(S_InStock))

\* Every shape of one offer object, and offers that are no object.
OfferValues ==
    {JDict(type @@ price @@ currency @@ availability) :
        type \in Optional("@type", {JStr(S_Offer), JStr(S_Product)}),
        price \in Optional("price", {JStr(S_Price1)}),
        currency \in Optional("priceCurrency", {JStr(S_USD)}),
        availability \in Optional("availability", {JStr(S_InStock), JStr(S_PreOrder), JNum(1)})}
    \cup {JNull, JStr(S_Widget)}

OfferSamples ==
    {GoodOffer,
     JStr(S_Widget),
     JDict("@type" :> JStr(S_Offer) @@ "price" :> JStr(S_Price1)
        @@ "priceCurrency" :> JStr(S_USD) @@ "availability" :> JStr(S_PreOrder)),
     JDict("@type" :> JStr(S_Product) @@ "priceCurrency" :> JStr(S_USD))}

OffersValues ==
    {JList(<<>>)} \cup {JList(<<o>>) : o \in OfferValues}
    \cup {JList(l) : l \in SeqsFrom2(OfferSamples, MaxOffers)}
    \cup OfferSamples

ImageValues ==
    {JList(<<>>), JList(<<JStr(S_Img1)>>), JList(<<JStr(S_UrlNoScheme)>>),
     JStr(S_Img1), JDict("@type" :> JStr(S_Product))}

\* Product documents: every combination of the presence of the required
\* fields, and a complete document with every shape of offers and of image.
ProductDocs ==
    {JDict(type @@ name @@ rest @@ image @@ offers) :
        type \in Optional("@type", {JStr(S_Product), JStr(S_Organization),
                                    JList(<<JStr(S_Product)>>)}),
        name \in Optional("name", {JStr(S_Widget), JStr(S_Empty)}),
        rest \in {"description" :> JStr(S_Desc) @@ "brand" :> JDict("name" :> JStr(S_Acme)),
                  "description" :> JStr(S_Desc) @@ "brand" :> JDict(EmptyDict),
                  "brand" :> JStr(S_Acme) @@ "sku" :> JStr(S_SkuS)},
        image \in Optional("image", {JList(<<JStr(S_Img1)>>)}),
        offers \in Optional("offers", {JList(<<>>), JList(<<GoodOffer>>), GoodOffer,
                                       JList(<<JStr(S_Widget)>>)})}
    \cup
    {JDict(("@type" :> JStr(S_Product) @@ "name" :> JStr(S_Widget)
            @@ "description" :> JStr(S_Desc) @@ "brand" :> JDict("name" :> JStr(S_Acme)))
           @@ image @@ offers) :
        image \in {"image" :> JList(<<JStr(S_Img1)>>)},
        offers \in Optional("offers", OffersValues)}
    \cup
    {JDict(("@type" :> JStr(S_Product) @@ "name" :> JStr(S_Widget)
            @@ "description" :> JStr(S_Desc) @@ "brand" :> JDict("name" :> JStr(S_Acme)))
           @@ image @@ offers) :
        image \in Optional("image", ImageValues),
        offers \in {"offers" :> JList(<<GoodOffer>>), "offers" :> JStr(S_Widget)}}

OrganizationDocs ==
    {JDict(type @@ name @@ url @@ rest) :
        type \in Optional("@type", {JStr(S_Organization), JStr(S_Product)}),
        name \in Optional("name", {JStr(S_ShopName), JStr(S_Empty)}),
        url \in Optional("url", {JStr(S_UrlExample), JStr(S_UrlNoScheme), JStr(S_Empty),
                                 JNum(1)}),
        rest \in {EmptyDict, "description" :> JStr(S_Empty) @@ "sameAs" :> JList(<<>>)}}

\* Every shape of one breadcrumb item, and items that are no object.
ItemValues ==
    {JDict(type @@ position @@ name) :
        type \in Optional("@type", {JStr(S_ListItem), JStr(S_Product)}),
        position \in Optional("position", {JNum(1)}),
        name \in Optional("name", {JStr(S_Home)})}
    \cup {JNull, JStr(S_Home)}

ItemSamples ==
    {JDict("@type" :> JStr(S_ListItem) @@ "position" :> JNum(1) @@ "name" :> JStr(S_Home)),
     JDict("@type" :> JStr(S_ListItem)),
     JStr(S_Home)}

BreadcrumbDocs ==
    {JDict(type @@ items) :
        type \in Optional("@type", {JStr(S_BreadcrumbList), JStr(S_FAQPage)}),
        items \in Optional("itemListElement",
                    {JList(<<>>), JStr(S_Home), JDict(EmptyDict)}
                    \cup {JList(<<i>>) : i \in ItemValues}
                    \cup {JList(l) : l \in SeqsFrom2(ItemSamples, MaxItems)})}

AnswerValues ==
    {JDict(type @@ text) :
        type \in Optional("@type", {JStr(S_Answer), JStr(S_Question)}),
        text \in Optional("text", {JStr(S_Text), JStr(S_Empty)})}
    \cup {JNull, JStr(S_Text)}

\* Every shape of one FAQ entity, and entities that are no object.
EntityValues ==
    {JDict(type @@ name @@ answer) :
        type \in Optional("@type", {JStr(S_Question), JStr(S_Answer)}),
        name \in Optional("name", {JStr(S_WhatIs)}),
        answer \in Optional("acceptedAnswer", AnswerValues)}
    \cup {JNull, JStr(S_WhatIs)}

GoodEntity ==
    JDict("@type" :> JStr(S_Question) @@ "name" :> JStr(S_WhatIs)
       @@ "acceptedAnswer" :> JDict("@type" :> JStr(S_Answer) @@ "text" :> JStr(S_Text)))

EntitySamples ==
    {GoodEntity,
     JDict("@type" :> JStr(S_Question) @@ "acceptedAnswer" :> JDict("text" :> JStr(S_Text))),
     JStr(S_WhatIs)}

FaqDocs ==
    {JDict(type @@ name @@ entities) :
        type \in Optional("@type", {JStr(S_FAQPage), JStr(S_FAQ)}),
        name \in Optional("name", {JStr(S_Widget)}),
        entities \in Optional("mainEntity",
                    {JList(<<>>), JStr(S_WhatIs), JDict(EmptyDict)}
                    \cup {JList(<<e>>) : e \in EntityValues}
                    \cup {JList(l) : l \in SeqsFrom2(EntitySamples, MaxEntities)})}

ReviewDocs ==
    {JDict("@type" :> JStr(S_Review) @@ body @@ author @@ rating @@ date) :
        body \in Optional("reviewBody", {JStr(S_Text), JStr(S_Empty)}),
        author \in Optional("author", {JStr(S_Acme)}),
        rating \in Optional("reviewRating", {JNum(5), JNum(0)}),
        date \in Optional("datePublished", {JStr(S_Text)})}

\* Documents that give their type in an @graph, or as an object.
GraphDocs ==
    {JDict("@graph" :> JList(<<JStr(S_Widget), JDict("@type" :> JStr(S_Product))>>)),
     JDict("@graph" :> JList(<<JDict("@type" :> JList(<<JStr(S_Product)>>))>>)),
     JDict("@graph" :> JList(<<>>) @@ "name" :> JStr(S_Widget)),
     JDict("@graph" :> JStr(S_Widget)),
     JDict("@type" :> JDict(EmptyDict) @@ "name" :> JStr(S_Widget))}

(***************************************************************************)
(* The validator as a state machine: a call of one of its functions on a   *)
(* document, then the return to the caller.  The validator keeps no state  *)
(* between calls.                                                          *)
(***************************************************************************)
InitVal == pc = "idle" /\ call = NoCall /\ ret = JNull

\* The call of `op` on `schema`, which returns (or raises) `result`.
Validate(op, schema, result) ==
    /\ call' = [op |-> op, schema |-> schema]
    /\ ret' = result
    /\ pc' = "done"

ValidateProductSchema ==
    /\ pc = "idle"
    /\ \E schema \in ProductDocs \cup RootShapes \cup GraphDocs :
         Validate("validate_product_schema", schema, validate_product_schema(schema))

ValidateOrganizationSchema ==
    /\ pc = "idle"
    /\ \E schema \in OrganizationDocs \cup RootShapes \cup GraphDocs :
         Validate("validate_organization_schema", schema,
                  validate_organization_schema(schema))

ValidateBreadcrumbSchema ==
    /\ pc = "idle"
    /\ \E schema \in BreadcrumbDocs \cup RootShapes \cup GraphDocs :
         Validate("validate_breadcrumb_schema", schema, validate_breadcrumb_schema(schema))

ValidateFaqSchema ==
    /\ pc = "idle"
    /\ \E schema \in FaqDocs \cup RootShapes \cup GraphDocs :
         Validate("validate_faq_schema", schema, validate_faq_schema(schema))

ValidateAgainstGoogleRequirements ==
    /\ pc = "idle"
    /\ \E schema \in ProductDocs \cup FaqDocs \cup ReviewDocs \cup RootShapes \cup GraphDocs :
         Validate("validate_against_google_requirements", schema,
                  validate_against_google_requirements(schema))

NextVal ==
    \/ ValidateProductSchema
    \/ ValidateOrganizationSchema
    \/ ValidateBreadcrumbSchema
    \/ ValidateFaqSchema
    \/ ValidateAgainstGoogleRequirements
    \/ Return

SpecVal == InitVal /\ [][NextVal]_vars

(***************************************************************************)
(* Properties of the validators.                                           *)
(***************************************************************************)
ValidatorOps ==
    {"validate_product_schema", "validate_organization_schema",
     "validate_breadcrumb_schema", "validate_faq_schema"}

\* A call that came back with a result (it did not raise).
Returned(op) == Done(op) /\ ~Raised(ret)

\* C3: every result returned by validate_product_schema,
\* validate_organization_schema, validate_breadcrumb_schema and
\* validate_faq_schema has valid = false iff its errors list is non-empty;
\* a result with warnings and no errors is valid.
C3_ValidIffNoErrors ==
    \A op \in ValidatorOps :
        Returned(op) =>
            /\ ret.valid = FALSE <=> ret.errors # <<>>
            /\ (ret.warnings # <<>> /\ ret.errors = <<>>) => ret.valid

\* A product document whose offers fail sub-validation and that lacks
\* recommended fields: errors and warnings, and valid = false.
C3_Witness ==
    /\ Returned("validate_product_schema")
    /\ Has(call.schema, "offers")
    /\ ~validate_offers(call.schema.dict["offers"]).valid
    /\ ret.errors # <<>>
    /\ ret.warnings # <<>>
    /\ ret.valid = FALSE

\* An offer that passes offer sub-validation: an object of @type Offer with
\* price, priceCurrency and availability, the availability (when a string)
\* a schema.org URL.
OfferPasses(offer) ==
    /\ IsDict(offer)
    /\ DictGet(offer, "@type") = JStr(S_Offer)
    /\ \A f \in {"price", "priceCurrency", "availability"} : Has(offer, f)
    /\ IsStr(offer.dict["availability"]) =>
         StartsWith(offer.dict["availability"].str, S_ContextSlash)

\* The offers of a document, a single offer counted as a list of one.
OffersOf(schema) ==
    IF IsList(schema.dict["offers"]) THEN schema.dict["offers"].list
    ELSE <<schema.dict["offers"]>>

\* The number of entries of errors that are msg.
Count(errors, msg) == Cardinality({i \in 1..Len(errors) : errors[i] = msg})

\* C4: validate_product_schema returns valid = true exactly when @type is
\* "Product", each of name, description, image, offers and brand is present
\* and non-empty and every offer passes offer sub-validation; otherwise
\* errors holds exactly one message "Missing required field: f" for each
\* required field f that is absent or empty (so a document without offers
\* gets an error containing "offers").
C4_ProductValidExactlyWhen ==
    Returned("validate_product_schema") =>
        LET schema == call.schema
            fields == {REQUIRED_PRODUCT_FIELDS[i] : i \in 1..Len(REQUIRED_PRODUCT_FIELDS)}
        IN  /\ ret.valid <=>
                 /\ DictGet(schema, "@type") = JStr(S_Product)
                 /\ \A f \in fields : Has(schema, f) /\ Truthy(schema.dict[f])
                 /\ \A i \in 1..Len(OffersOf(schema)) : OfferPasses(OffersOf(schema)[i])
            /\ \A f \in fields :
                 Count(ret.errors, S_MissingRequired \o KeyChars[f])
                    = IF Has(schema, f) /\ Truthy(schema.dict[f]) THEN 0 ELSE 1
            /\ ~Has(schema, "offers") =>
                 \E i \in 1..Len(ret.errors) : Contains(ret.errors[i], KeyChars["offers"])

\* A Product document complete but for its offers: invalid, with exactly the
\* error that names offers.
C4_Witness ==
    /\ Returned("validate_product_schema")
    /\ DictGet(call.schema, "@type") = JStr(S_Product)
    /\ ~Has(call.schema, "offers")
    /\ ret.valid = FALSE
    /\ ret.errors = <<S_MissingRequired \o KeyChars["offers"]>>

\* The fields the rule table requires of a document of type t, where the
\* entry of FAQ pages is taken to apply to documents of @type FAQPage.
GoogleRequiredOf(t) ==
    UNION {{r.required[i] : i \in 1..Len(r.required)} :
             r \in {q \in {GOOGLE_RICH_RESULTS_REQUIREMENTS[i] :
                              i \in 1..Len(GOOGLE_RICH_RESULTS_REQUIREMENTS)} :
                       \/ JStr(q.type) = t
                       \/ q.type = S_FAQ /\ t = JStr(S_FAQPage)}}

\* C5: for a Product, a Review or an FAQ page document,
\* validate_against_google_requirements returns eligible_for_rich_results =
\* false iff at least one field required for that type is absent or empty,
\* and each such field has its error "Google requires field: f".
C5_EligibleIffRequiredPresent ==
    (/\ Returned("validate_against_google_requirements")
     /\ IsDict(call.schema)
     /\ DictGet(call.schema, "@type") \in {JStr(S_Product), JStr(S_Review), JStr(S_FAQPage)})
    =>
        LET missing == {f \in GoogleRequiredOf(DictGet(call.schema, "@type")) :
                            MissingOrEmpty(call.schema, f)}
        IN  /\ ret.eligible_for_rich_results = FALSE <=> missing # {}
            /\ \A f \in missing : Count(ret.errors, S_GoogleRequires \o KeyChars[f]) = 1

\* C9: no validator raises, whatever the shape of the document it is given:
\* every call of the product, organization, breadcrumb, FAQ and Google
\* validators returns a result.
C9_ValidatorsNeverRaise ==
    \A op \in ValidatorOps \cup {"validate_against_google_requirements"} :
        Done(op) => ~Raised(ret)

(***************************************************************************)
(* utils/helpers.py: truncate_text, and str.strip.                         *)
(***************************************************************************)
\* s.strip()
Strip(s) ==
    LET inked == {i \in 1..Len(s) : s[i] \notin Whitespace}
    IN  IF inked = {} THEN <<>>
        ELSE SubSeq(s, CHOOSE i \in inked : \A j \in inked : i <= j,
                       CHOOSE i \in inked : \A j \in inked : j <= i)

\* head.rsplit(' ', 1)[0], head holding a space: what precedes its last space.
BeforeLastSpace(head) ==
    LET spaces == {i \in 1..Len(head) : head[i] = " "}
    IN  SubSeq(head, 1, (CHOOSE i \in spaces : \A j \in spaces : j <= i) - 1)

\* truncate_text(text, max_length), the suffix being "..."
truncate_text(text, max_length) ==
    IF text = <<>> \/ Len(text) <= max_length THEN text
    ELSE IF \E i \in 1..max_length : text[i] = " "
    THEN BeforeLastSpace(Prefix(text, max_length)) \o S_Ellipsis
    ELSE Prefix(text, max_length) \o S_Ellipsis

\* sep.join(parts)
RECURSIVE Join(_, _)
Join(parts, sep) ==
    IF parts = <<>> THEN <<>>
    ELSE IF Len(parts) = 1 THEN parts[1]
    ELSE parts[1] \o sep \o Join(Tail(parts), sep)

(***************************************************************************)
(* ai/enhancer.py: AIEnhancer.  The provider is the environment: a request *)
(* is given the outcome of each of its attempts.                           *)
(***************************************************************************)
\* AIEnhancer.__init__: max_retries
MAX_RETRIES == 3

\* enhance_description: max_length
MAX_DESCRIPTION_LENGTH == 200

\* The outcome of one attempt: the create call raises, or it returns a
\* response with no choice, or one whose first choice has this content.
Fails(exception) == [error |-> exception]
NoChoices == [choices |-> 0]
Content(content) == [content |-> content]

\* openai.RateLimitError; openai.APIError and its subclass APITimeoutError;
\* any other exception, such as the AttributeError of a malformed response.
ProviderErrors == {"RateLimitError", "APIError", "APITimeoutError", "AttributeError"}

\* _make_openai_request from attempt `attempt` on: the stripped content of
\* the first attempt that has some, None when the attempts are used up, and
\* AIEnhancementError when the last attempt raises an APIError.
RECURSIVE MakeRequestFrom(_, _)
MakeRequestFrom(outcomes, attempt) ==
    IF attempt >= MAX_RETRIES THEN JNull
    ELSE LET outcome == outcomes[attempt + 1]
             last == attempt = MAX_RETRIES - 1
         IN  IF DOMAIN outcome = {"content"}
             THEN IF Truthy(outcome.content) THEN JStr(Strip(outcome.content.str))
                  ELSE MakeRequestFrom(outcomes, attempt + 1)
             ELSE IF DOMAIN outcome = {"choices"}
             THEN MakeRequestFrom(outcomes, attempt + 1)
             ELSE IF outcome.error = "RateLimitError"
             THEN MakeRequestFrom(outcomes, attempt + 1)
             ELSE IF outcome.error \in {"APIError", "APITimeoutError"}
             THEN IF last THEN Raise("AIEnhancementError")
                  ELSE MakeRequestFrom(outcomes, attempt + 1)
             ELSE IF last THEN JNull
                  ELSE MakeRequestFrom(outcomes, attempt + 1)

make_openai_request(outcomes) == MakeRequestFrom(outcomes, 0)

\* try: result  except Exception: (log a warning, then go on to) fallback
TryExcept_Reraise(result, fallback) == result

TryExcept(result, fallback) == IF Raised(result) THEN fallback ELSE result

\* A try block that ends without a return goes on to the fallback as well.
OrElse(result, fallback) == IF IsNull(result) THEN fallback ELSE result

\* _generate_description_from_product, its "simple fallback": the vendor and
\* the product type are added to the title unless the title names them.
description_from_parts(product, max_length) ==
    LET title == Get(product, "title", S_Empty)
        vendor == Get(product, "vendor", S_Empty)
        product_type == Get(product, "product_type", S_Empty)
        parts == (IF vendor # <<>> /\ ~Contains(Lower(title), Lower(vendor))
                  THEN <<vendor>> ELSE <<>>)
                 \o <<title>>
                 \o (IF product_type # <<>> /\ ~Contains(Lower(title), Lower(product_type))
                     THEN <<S_InSpace \o product_type>> ELSE <<>>)
    IN  Prefix(Join(parts, S_Space), max_length)

\* _generate_description_from_product
generate_description_from_product(product, max_length, outcomes) ==
    LET response == make_openai_request(outcomes)
        attempt == IF Raised(response) THEN response
                   ELSE IF Truthy(response) /\ Len(response.str) >= 20
                   THEN JStr(truncate_text(response.str, max_length))
                   ELSE JNull
    IN  OrElse(TryExcept(attempt, JNull), JStr(description_from_parts(product, max_length)))

\* AIEnhancer.enhance_description
enhance_description(description, product, max_length, outcomes) ==
    IF description = <<>> \/ Len(Strip(description)) < 10
    THEN generate_description_from_product(product, max_length, outcomes)
    ELSE
    LET clean_desc == clean_html(description)
        response == make_openai_request(outcomes)
        enhanced == truncate_text(Strip(response.str), max_length)
        attempt == IF Raised(response) THEN response
                   ELSE IF ~Truthy(response) THEN JNull
                   ELSE IF Len(enhanced) < 20 \/ Contains(enhanced, S_ICannot)
                   THEN JStr(truncate_text(clean_desc, max_length))
                   ELSE JStr(enhanced)
    IN  OrElse(TryExcept(attempt, JNull),
               JStr(truncate_text(clean_html(description), max_length)))

\* The default max_length of optimize_title_for_seo.
MAX_TITLE_LENGTH == 60

\* AIEnhancer.optimize_title_for_seo
optimize_title_for_seo(product, max_length, outcomes) ==
    LET original_title == Get(product, "title", S_Empty)
        response == make_openai_request(outcomes)
        attempt == IF Raised(response) THEN response
                   ELSE IF Truthy(response) /\ Len(Strip(response.str)) <= max_length
                   THEN JStr(Strip(response.str))
                   ELSE JNull
    IN  IF Len(original_title) <= max_length THEN JStr(original_title)
        ELSE OrElse(TryExcept(attempt, JNull), JStr(truncate_text(original_title, max_length)))

\* AIEnhancer._basic_categorization
basic_categorization(product) ==
    LET product_type == Lower(Get(product, "product_type", S_Empty))
        tags == [i \in 1..Len(Get(product, "tags", <<>>)) |-> Lower(Get(product, "tags", <<>>)[i])]
        title == Lower(Get(product, "title", S_Empty))
        text_to_match == product_type \o S_Space \o Join(tags, S_Space) \o S_Space \o title
    IN  IF FirstCategory(text_to_match, 1) # <<>> THEN FirstCategory(text_to_match, 1)[1]
        ELSE S_Other

\* set(CATEGORY_MAPPING.values())
valid_categories == {CATEGORY_MAPPING[i][2] : i \in 1..Len(CATEGORY_MAPPING)}

\* if category in valid_categories
KnownCategory_Any(category) == TRUE

KnownCategory(category) == category \in valid_categories

\* AIEnhancer.categorize_product
categorize_product(product, outcomes) ==
    LET basic_category == basic_categorization(product)
        response == make_openai_request(outcomes)
        attempt == IF basic_category # S_Other THEN JStr(basic_category)
                   ELSE IF Raised(response) THEN response
                   ELSE IF Truthy(response) /\ KnownCategory(Strip(response.str))
                   THEN JStr(Strip(response.str))
                   ELSE JNull
    IN  OrElse(TryExcept(attempt, JNull), JStr(basic_categorization(product)))

\* json.loads on the responses the provider is given here; any other text
\* is no JSON document and raises JSONDecodeError.
json_loads(text) ==
    IF text = S_RespFaq
    THEN JDict("questions" :> JList(<<JDict("question" :> JStr(S_IsItTea)
                                         @@ "answer" :> JStr(S_Text)),
                                       JStr(S_x)>>))
    ELSE IF text = S_RespNoQuestions THEN JDict("questions" :> JList(<<>>))
    ELSE IF text = S_RespJsonList THEN JList(<<>>)
    ELSE IF text = S_RespSix
    THEN JDict("questions" :> JList([i \in 1..6 |->
                    JDict("question" :> JStr(<<"Q">> \o IntStr(i))
                       @@ "answer" :> JStr(<<"A">> \o IntStr(i)))]))
    ELSE Raise("JSONDecodeError")

\* The Question built from each of the first five entries of questions that
\* is an object with a question and an answer.
RECURSIVE MainEntities(_)
MainEntities(questions) ==
    IF questions = <<>> THEN <<>>
    ELSE LET q == Head(questions)
         IN  (IF IsDict(q) /\ Has(q, "question") /\ Has(q, "answer")
              THEN <<JDict("@type" :> JStr(S_Question)
                        @@ "name" :> q.dict["question"]
                        @@ "acceptedAnswer" :> JDict("@type" :> JStr(S_Answer)
                                                  @@ "text" :> q.dict["answer"]))>>
              ELSE <<>>)
             \o MainEntities(Tail(questions))

\* The basic FAQ with the question about the product whatever its title.
AIEnhancer_generate_basic_faq_AlwaysWhat(product) ==
    LET title == Get(product, "title", S_Empty)
        entity(name, text) ==
            JDict("@type" :> JStr(S_Question) @@ "name" :> JStr(name)
               @@ "acceptedAnswer" :> JDict("@type" :> JStr(S_Answer) @@ "text" :> JStr(text)))
    IN  JDict("@context" :> JStr(S_Context)
           @@ "@type" :> JStr(S_FAQPage)
           @@ "mainEntity" :> JList(<<entity(S_WhatIs \o title \o S_QMark,
                                             title \o S_IsAvailable),
                                      entity(S_DoYouOfferShipping, S_YesWeOfferShipping)>>))

\* AIEnhancer._generate_basic_faq
AIEnhancer_generate_basic_faq(product) ==
    LET title == Get(product, "title", S_Empty)
        description == clean_html(Get(product, "body_html", S_Empty))
        what == IF title # <<>>
                THEN <<JDict("@type" :> JStr(S_Question)
                          @@ "name" :> JStr(S_WhatIs \o title \o S_QMark)
                          @@ "acceptedAnswer" :>
                               JDict("@type" :> JStr(S_Answer)
                                  @@ "text" :> JStr(IF description # <<>>
                                                    THEN truncate_text(description, 200)
                                                    ELSE title \o S_IsAvailable)))>>
                ELSE <<>>
        shipping == JDict("@type" :> JStr(S_Question)
                       @@ "name" :> JStr(S_DoYouOfferShipping)
                       @@ "acceptedAnswer" :> JDict("@type" :> JStr(S_Answer)
                                                 @@ "text" :> JStr(S_YesWeOfferShipping)))
    IN  JDict("@context" :> JStr(S_Context)
           @@ "@type" :> JStr(S_FAQPage)
           @@ "mainEntity" :> JList(what \o <<shipping>>))

\* AIEnhancer.generate_faq_schema.  A response that is no JSON document is
\* caught where it is parsed; a document that is no object raises
\* AttributeError at faq_data.get, which the outer handler catches.
AIEnhancer_generate_faq_schema(product, outcomes) ==
    LET response == make_openai_request(outcomes)
        faq_data == json_loads(response.str)
        questions == DictGet(faq_data, "questions")
        main_entities == MainEntities(Prefix(questions.list, 5))
        attempt == IF Raised(response) THEN response
                   ELSE IF ~Truthy(response) THEN JNull
                   ELSE IF Raised(faq_data) THEN JNull
                   ELSE IF ~IsDict(faq_data) THEN Raise("AttributeError")
                   ELSE IF ~Has(faq_data, "questions") \/ ~IsList(questions) THEN JNull
                   ELSE IF main_entities = <<>> THEN JNull
                   ELSE JDict("@context" :> JStr(S_Context)
                           @@ "@type" :> JStr(S_FAQPage)
                           @@ "mainEntity" :> JList(main_entities))
    IN  OrElse(TryExcept(attempt, JNull), AIEnhancer_generate_basic_faq(product))

(***************************************************************************)
(* core/generator.py with an enhancer (self.ai_enhancer set and            *)
(* config.enable_ai_features true).                                        *)
(***************************************************************************)
\* _categorize_product: the enhancer's category, the basic mapping if the
\* enhancer raises.
categorize_product_enhanced(product, outcomes) ==
    LET category == categorize_product(product, outcomes)
    IN  IF Raised(category) THEN categorize_basic(product) ELSE category.str

\* generate_product_schema: the enhancer's description, the cleaned
\* description if the enhancer raises.
generate_product_schema_enhanced(product, shop_info, config, today, described, categorized) ==
    LET clean_description == clean_html(Get(product, "body_html", S_Empty))
        enhanced == enhance_description(clean_description, product,
                                        MAX_DESCRIPTION_LENGTH, described)
    IN  product_schema(product, shop_info, config, today,
                       IF Raised(enhanced) THEN clean_description ELSE enhanced.str,
                       categorize_product_enhanced(product, categorized))

\* generate_faq_schema: the enhancer's FAQ, the basic FAQ if the enhancer
\* raises.
generate_faq_schema_enhanced(product, outcomes) ==
    LET faq == AIEnhancer_generate_faq_schema(product, outcomes)
    IN  IF Raised(faq) THEN generate_basic_faq(product) ELSE faq

(***************************************************************************)
(* The enhancer and the builder that uses it, as a state machine: a call   *)
(* of one operation on a catalog record, the provider answering each       *)
(* attempt of each request in one of the ways it can, then the return.     *)
(***************************************************************************)
\* The outcomes of an attempt that give the request nothing.
FailingOutcomes ==
    {Fails(e) : e \in ProviderErrors} \cup {NoChoices, Content(JNull)}

Responses ==
    {S_RespDesc, S_RespShort, S_RespRefusal, S_RespBlank, S_RespFaq, S_RespNoQuestions,
     S_RespJsonList, S_RespSix, S_Media, S_Gadgets, S_RespPadded, S_RespLower}

\* A request that every attempt fails, and one that is answered after fewer
\* than MAX_RETRIES failed attempts.
FailedRuns == [1..MAX_RETRIES -> FailingOutcomes]

AnsweredRuns ==
    {[i \in 1..k |-> o] \o <<Content(JStr(r))>> :
        k \in 0..(MAX_RETRIES - 1), o \in FailingOutcomes, r \in Responses}

Runs == FailedRuns \cup AnsweredRuns

\* The request for a category: failed at every attempt, or answered at once.
CategoryRuns ==
    {[i \in 1..MAX_RETRIES |-> Fails(e)] : e \in {"RateLimitError", "APIError"}}
    \cup {<<Content(JStr(S_Media))>>, <<Content(JStr(S_Gadgets))>>}

EnhancedProducts ==
    {("id" :> 1 @@ "title" :> S_Widget @@ "handle" :> S_widget) @@ rest :
        rest \in {EmptyDict,
                  "body_html" :> S_BodyShort @@ "vendor" :> S_Acme,
                  "body_html" :> S_BodyLong,
                  "body_html" :> S_BodyLong @@ "vendor" :> S_Acme @@ "product_type" :> S_Food,
                  "body_html" :> S_BodyShort @@ "product_type" :> S_Food,
                  "product_type" :> S_Tea @@ "vendor" :> S_Widget}}

\* Products without a title, for the basic FAQ of the enhancer.
UntitledProducts ==
    {("id" :> 3 @@ "handle" :> S_widget) @@ title @@ body :
        title \in Optional("title", {S_Empty}),
        body \in Optional("body_html", {S_BodyShort})}

\* A description and a title one character longer than their limits.
LongProducts ==
    {"id" :> 4 @@ "handle" :> S_widget @@ "body_html" :> S_Body201
        @@ "title" :> [i \in 1..(MAX_TITLE_LENGTH + 1) |-> "x"]}

InitEnh == pc = "idle" /\ call = NoCall /\ ret = JNull

EnhanceDescription ==
    /\ pc = "idle"
    /\ \E product \in EnhancedProducts \cup LongProducts, outcomes \in Runs :
         LET description == clean_html(Get(product, "body_html", S_Empty))
         IN  /\ call' = [op |-> "AIEnhancer.enhance_description", product |-> product,
                         description |-> description, outcomes |-> outcomes]
             /\ ret' = enhance_description(description, product,
                                           MAX_DESCRIPTION_LENGTH, outcomes)
    /\ pc' = "done"

EnhancerGenerateFaqSchema ==
    /\ pc = "idle"
    /\ \E product \in EnhancedProducts \cup UntitledProducts, outcomes \in Runs :
         /\ call' = [op |-> "AIEnhancer.generate_faq_schema", product |-> product,
                     outcomes |-> outcomes]
         /\ ret' = AIEnhancer_generate_faq_schema(product, outcomes)
    /\ pc' = "done"

OptimizeTitleForSeo ==
    /\ pc = "idle"
    /\ \E product \in EnhancedProducts \cup LongProducts, outcomes \in Runs :
         /\ call' = [op |-> "AIEnhancer.optimize_title_for_seo", product |-> product,
                     outcomes |-> outcomes]
         /\ ret' = optimize_title_for_seo(product, MAX_TITLE_LENGTH, outcomes)
    /\ pc' = "done"

CategorizeProduct ==
    /\ pc = "idle"
    /\ \E product \in EnhancedProducts \cup CategoryProducts, outcomes \in Runs :
         /\ call' = [op |-> "AIEnhancer.categorize_product", product |-> product,
                     outcomes |-> outcomes]
         /\ ret' = categorize_product(product, outcomes)
    /\ pc' = "done"

GenerateProductSchemaEnhanced ==
    /\ pc = "idle"
    /\ \E product \in EnhancedProducts \cup CategoryProducts, outcomes \in Runs,
          categorized \in CategoryRuns :
         /\ call' = [op |-> "SchemaGenerator.generate_product_schema", product |-> product,
                     outcomes |-> outcomes, categorized |-> categorized]
         /\ ret' = generate_product_schema_enhanced(product, EmptyDict, Config, Today,
                                                    outcomes, categorized)
    /\ pc' = "done"

GenerateFaqSchemaEnhanced ==
    /\ pc = "idle"
    /\ \E product \in EnhancedProducts, outcomes \in Runs :
         /\ call' = [op |-> "SchemaGenerator.generate_faq_schema", product |-> product,
                     outcomes |-> outcomes]
         /\ ret' = generate_faq_schema_enhanced(product, outcomes)
    /\ pc' = "done"

NextEnh ==
    \/ EnhanceDescription
    \/ EnhancerGenerateFaqSchema
    \/ CategorizeProduct
    \/ OptimizeTitleForSeo
    \/ GenerateProductSchemaEnhanced
    \/ GenerateFaqSchemaEnhanced
    \/ Return

SpecEnh == InitEnh /\ [][NextEnh]_vars

(***************************************************************************)
(* Properties of the enhancer.                                             *)
(***************************************************************************)
\* No attempt of the request got a usable content from the provider.
ProviderFailed(outcomes) ==
    \A i \in 1..Len(outcomes) :
        DOMAIN outcomes[i] = {"content"} => ~Truthy(outcomes[i].content)

\* What enhance_description falls back to: the description built from the
\* product's own fields when the description is shorter than 10
\* characters, else the cleaned description cut to the maximum length.
DescriptionFallback(description, product) ==
    IF description = <<>> \/ Len(Strip(description)) < 10
    THEN description_from_parts(product, MAX_DESCRIPTION_LENGTH)
    ELSE truncate_text(clean_html(description), MAX_DESCRIPTION_LENGTH)

MaxPages == 2
MaxPageSize == 2
MaxLimit == 3

\* The products of the page `page` of a store whose pages have these sizes.
PageProducts(sizes, page) ==
    [j \in 1..sizes[page] |-> [id |-> 10 * page + j]]

Stores ==
    {[shop |-> shop, collections |-> collections, sizes |-> sizes] :
        shop \in {EmptyDict, "name" :> S_ShopName},
        collections \in {<<>>, <<[id |-> 1, title |-> S_Teas, handle |-> S_teas]>>,
                         <<[id |-> 2, title |-> S_Gifts, handle |-> S_gifts],
                           [id |-> 1, title |-> S_Teas, handle |-> S_teas]>>},
        sizes \in UNION {[1..k -> 0..MaxPageSize] : k \in 1..MaxPages}}

\* The first fields of schemas, as generate_complete_schema_package sets
\* them before the loop over the products.
InitSchemas(shop_info) ==
    [organization |-> Get(shop_info, "name", S_Empty),
     products |-> <<>>, collections |-> <<>>, total_products |-> 0]

\* _generate_product_package, by the id of the product it is built from.
product_package(product) == [product_id |-> product.id]

\* _generate_collection_schema, by the title of the collection.
collection_schema(collection) == [name |-> collection.title]

\* schemas["products"].append(product_schemas)
AppendProduct_WriteThrough(run, product_schemas) ==
    [run EXCEPT !.schemas[1].products = Append(@, product_schemas),
                !.output = <<[run.schemas[1] EXCEPT
                                !.products = Append(@, product_schemas)]>>]

AppendProduct(run, product_schemas) ==
    [run EXCEPT !.schemas[1].products = Append(@, product_schemas)]

\* for product in products[:limit]: the package of each is appended.
RECURSIVE ProcessProducts_LastFirst(_, _)
ProcessProducts_LastFirst(run, products) ==
    IF products = <<>> THEN run
    ELSE AppendProduct(ProcessProducts_LastFirst(run, Tail(products)),
                       product_package(Head(products)))

RECURSIVE ProcessProducts(_, _)
ProcessProducts(run, products) ==
    IF products = <<>> THEN run
    ELSE ProcessProducts(AppendProduct(run, product_package(Head(products))),
                         Tail(products))

\* A file that an earlier run left at the output path.
OldDocument ==
    [organization |-> S_ShopName, products |-> <<[product_id |-> 99]>>,
     collections |-> <<>>, total_products |-> 1]

InitRun == pc = "idle" /\ call = NoCall /\ ret = JNull

\* except Exception: progress.stop(); raise click.Abort()
Abort(failed) ==
    /\ pc' = "aborted"
    /\ ret' = [ret EXCEPT !.failed = failed]
    /\ UNCHANGED call

\* generate(...), up to the connection test.
StartGenerate ==
    /\ pc = "idle"
    /\ \E store \in Stores, limit \in 0..MaxLimit, include_collections \in BOOLEAN,
          previous \in {<<>>, <<OldDocument>>} :
         /\ call' = [op |-> "generate", store |-> store, limit |-> limit,
                     include_collections |-> include_collections, previous |-> previous]
         /\ ret' = [shop_info |-> EmptyDict, collections |-> <<>>, schemas |-> <<>>,
                    endpoint |-> 1, limit |-> limit, output |-> previous,
                    failed |-> "nothing"]
    /\ pc' = "connect"

\* shop_info = generator.client.get_shop_info(); a shop without a name
\* aborts the run.
TestConnection ==
    /\ pc = "connect"
    /\ \/ Abort("connect")
       \/ /\ Get(call.store.shop, "name", S_Empty) = <<>>
          /\ Abort("no shop name")
       \/ /\ Get(call.store.shop, "name", S_Empty) # <<>>
          /\ pc' = "shop_info"
          /\ UNCHANGED <<call, ret>>

\* generate_complete_schema_package: shop_info = self.client.get_shop_info()
GetShopInfo ==
    /\ pc = "shop_info"
    /\ \/ Abort("shop_info")
       \/ /\ UNCHANGED call
          /\ IF call.include_collections
             THEN /\ ret' = [ret EXCEPT !.shop_info = call.store.shop]
                  /\ pc' = "collections"
             ELSE /\ ret' = [ret EXCEPT !.shop_info = call.store.shop,
                                        !.schemas = <<InitSchemas(call.store.shop)>>]
                  /\ pc' = "products"

\* collections = self.client.get_collections()
GetCollections ==
    /\ pc = "collections"
    /\ \/ Abort("collections")
       \/ /\ ret' = [ret EXCEPT !.collections = call.store.collections,
                                !.schemas = <<InitSchemas(ret.shop_info)>>]
          /\ pc' = "products"
          /\ UNCHANGED call

\* get_products: the request of one page, and the products of the page that
\* the limit leaves; at the limit the generator returns.
FetchProductsPage ==
    /\ pc = "products"
    /\ ret.endpoint # 0 /\ ret.limit > 0
    /\ \/ Abort("products")
       \/ LET products == Prefix(PageProducts(call.store.sizes, ret.endpoint), ret.limit)
              processed == ProcessProducts(ret, products)
          IN  /\ ret' = [processed EXCEPT
                            !.limit = @ - Len(products),
                            !.endpoint = IF ret.limit - Len(products) <= 0 THEN 0 ELSE @]
              /\ pc' = IF ret.limit - Len(products) <= 0 THEN "products" ELSE "link"
              /\ UNCHANGED call

\* get_products: self.session.head(...).headers.get('Link'), and the next
\* endpoint parsed from it (None after the last page).
FetchNextLink ==
    /\ pc = "link"
    /\ \/ Abort("link")
       \/ /\ ret' = [ret EXCEPT !.endpoint = IF @ < Len(call.store.sizes) THEN @ + 1 ELSE 0]
          /\ pc' = "products"
          /\ UNCHANGED call

\* generate_complete_schema_package after the loop: the collection schemas
\* and total_products; the package is returned to the command.
FinishPackage ==
    /\ pc = "products"
    /\ ~(ret.endpoint # 0 /\ ret.limit > 0)
    /\ ret' = [ret EXCEPT
                 !.schemas[1].collections =
                     IF call.include_collections
                     THEN [i \in 1..Len(ret.collections) |-> collection_schema(ret.collections[i])]
                     ELSE <<>>,
                 !.schemas[1].total_products = Len(ret.schemas[1].products)]
    /\ pc' = "save"
    /\ UNCHANGED call

\* with open(output, 'w') as f: json.dump(schemas, f, indent=2)
SaveOutput ==
    /\ pc = "save"
    /\ ret' = [ret EXCEPT !.output = ret.schemas]
    /\ pc' = "saved"
    /\ UNCHANGED call

\* The command ends: it has displayed the results, or raised click.Abort.
Exit ==
    /\ pc \in {"saved", "aborted"}
    /\ pc' = "idle"
    /\ call' = NoCall
    /\ ret' = JNull

NextRun ==
    \/ StartGenerate
    \/ TestConnection
    \/ GetShopInfo
    \/ GetCollections
    \/ FetchProductsPage
    \/ FetchNextLink
    \/ FinishPackage
    \/ SaveOutput
    \/ Exit

SpecRun == InitRun /\ [][NextRun]_vars

(***************************************************************************)
(* Properties of a run.                                                    *)
(***************************************************************************)
RECURSIVE Flatten(_)
Flatten(lists) == IF lists = <<>> THEN <<>> ELSE Head(lists) \o Flatten(Tail(lists))

\* The package of a whole run on the store: every product of the store up
\* to the limit, in the store's order, and every collection if asked for.
WholePackage(run) ==
    LET all == Flatten([p \in 1..Len(run.store.sizes) |-> PageProducts(run.store.sizes, p)])
        products == Prefix(all, run.limit)
    IN  [organization |-> Get(run.store.shop, "name", S_Empty),
         products |-> [i \in 1..Len(products) |-> [product_id |-> products[i].id]],
         collections |-> IF run.include_collections
                         THEN [i \in 1..Len(run.store.collections) |->
                                  [name |-> run.store.collections[i].title]]
                         ELSE <<>>,
         total_products |-> Len(products)]

NonEmptyField(shop_info, field) ==
    /\ field \in DOMAIN shop_info
    /\ IsStr(shop_info[field])
    /\ shop_info[field].str # S_Empty

\* C11: the Organization document has the key contactPoint iff the shop has
\* a non-empty phone or a non-empty email; when present it is one
\* ContactPoint object with contactType "customer service" that holds the
\* phone and the email the shop has, and when absent the key is not there
\* at all.
C11_ContactPointIffPhoneOrEmail ==
    Done("generate_organization_schema") =>
        LET shop == call.shop_info
            phone == NonEmptyField(shop, "phone")
            email == NonEmptyField(shop, "email")
        IN  /\ "contactPoint" \in DOMAIN ret.dict <=> phone \/ email
            /\ "contactPoint" \in DOMAIN ret.dict =>
                 /\ IsDict(ret.dict["contactPoint"])
                 /\ ret.dict["contactPoint"].dict["@type"] = JStr(S_ContactPoint)
                 /\ ret.dict["contactPoint"].dict["contactType"] = JStr(S_CustomerService)
                 /\ "telephone" \in DOMAIN ret.dict["contactPoint"].dict <=> phone
                 /\ "email" \in DOMAIN ret.dict["contactPoint"].dict <=> email

\* A shop whose phone is null and whose email is "" gets no contactPoint,
\* although it has an address.
C11_Witness ==
    /\ Done("generate_organization_schema")
    /\ Get(call.shop_info, "phone", JStr(S_Phone)) = JNull
    /\ Get(call.shop_info, "email", JNull) = JStr(S_Empty)
    /\ "contactPoint" \notin DOMAIN ret.dict
    /\ "address" \in DOMAIN ret.dict

(***************************************************************************)
(* Properties of the categorization.                                       *)
(***************************************************************************)
\* A product the keyword table can categorize: its product type, one of its
\* tags or its title contains a keyword of CATEGORY_MAPPING.
HasKeyword(text) ==
    \E i \in 1..Len(CATEGORY_MAPPING) : Contains(Lower(text), CATEGORY_MAPPING[i][1])

Categorizable(product) ==
    \/ HasKeyword(Get(product, "product_type", S_Empty))
    \/ \E i \in 1..Len(Get(product, "tags", <<>>)) : HasKeyword(product.tags[i])
    \/ HasKeyword(Get(product, "title", S_Empty))

\* C12 (as claimed): for a product the keyword table can categorize, the
\* category of the Product schema built with the enhancer enabled is the
\* category of the Product schema built with the enhancer disabled,
\* whatever the provider answers.
C12_SameCategoryInBothModes ==
    (Done("SchemaGenerator.generate_product_schema") /\ Categorizable(call.product)) =>
        ret.dict["category"] =
            generate_product_schema(call.product, EmptyDict, Config, Today).dict["category"]

\* The labels of the fixed category vocabulary, and the sentinel.
CategoryLabels == valid_categories \cup {S_Other}

\* The text that _make_openai_request returns for the request of a call:
\* the stripped content of the first answered attempt, <<>> when there is
\* none.
Answer(outcomes) ==
    LET response == make_openai_request(outcomes)
    IN  IF Raised(response) \/ IsNull(response) THEN S_Empty ELSE response.str

\* C13: categorization is total and closed.  Every call of
\* AIEnhancer.categorize_product returns a label of the vocabulary or
\* "Other", whatever the provider does, and an answer that is not one of
\* the labels is discarded: the call then returns what the keyword scan
\* returns.  The same holds for the category of the Product schema.
C13_CategoryInVocabulary ==
    /\ Done("AIEnhancer.categorize_product") =>
         /\ ~Raised(ret)
         /\ IsStr(ret)
         /\ ret.str \in CategoryLabels
         /\ Answer(call.outcomes) \notin valid_categories =>
              ret.str = basic_categorization(call.product)
    /\ Done("SchemaGenerator.generate_product_schema") =>
         /\ ret.dict["category"].str \in CategoryLabels
         /\ Answer(call.categorized) \notin valid_categories =>
              ret.dict["category"].str = basic_categorization(call.product)

\* The provider answers "Gadgets" for a product the scan cannot place: the
\* answer is discarded and the category is "Other".
C13_Witness ==
    /\ Done("AIEnhancer.categorize_product")
    /\ Answer(call.outcomes) = S_Gadgets
    /\ basic_categorization(call.product) = S_Other
    /\ ret = JStr(S_Other)

(***************************************************************************)
(* json.dump (cli/commands/generate.py) and json.load                      *)
(* (cli/commands/validate.py): a document is written as the sequence of    *)
(* the tokens of its JSON text and read back by a recursive-descent        *)
(* parser.  A string, a number, true, false and null are one token each.   *)
(***************************************************************************)
Punct(c) == [t |-> "punct", v |-> c]
KeyToken(k) == [t |-> "key", v |-> k]
Scalar(v) == [t |-> "scalar", v |-> v]

IsPunct(token, c) == token.t = "punct" /\ token.v = c

RECURSIVE json_dump(_), DumpMembers(_, _), DumpItems(_, _)
\* "key": value, "key": value, ...
DumpMembers(d, keys) ==
    IF keys = {} THEN <<>>
    ELSE LET k == CHOOSE key \in keys : TRUE
         IN  <<KeyToken(k), Punct(":")>> \o json_dump(d[k])
                \o (IF keys = {k} THEN <<>> ELSE <<Punct(",")>>)
                \o DumpMembers(d, keys \ {k})

\* value, value, ...
DumpItems_First(l, i) == IF l = <<>> THEN <<>> ELSE json_dump(l[1])

DumpItems(l, i) ==
    IF i > Len(l) THEN <<>>
    ELSE json_dump(l[i]) \o (IF i = Len(l) THEN <<>> ELSE <<Punct(",")>>)
            \o DumpItems(l, i + 1)

json_dump(v) ==
    CASE IsDict(v) -> <<Punct("{")>> \o DumpMembers(v.dict, DOMAIN v.dict) \o <<Punct("}")>>
      [] IsList(v) -> <<Punct("[")>> \o DumpItems(v.list, 1) \o <<Punct("]")>>
      [] OTHER -> <<Scalar(v)>>

\* The parser: the value that starts at the token `at`, and the place after
\* it.
RECURSIVE ParseValue(_, _), ParseMembers(_, _, _), ParseItems(_, _, _)
ParseMembers(tokens, at, acc) ==
    IF IsPunct(tokens[at], "}") THEN [value |-> JDict(acc), next |-> at + 1]
    ELSE IF IsPunct(tokens[at], ",") THEN ParseMembers(tokens, at + 1, acc)
    ELSE [member \in {ParseValue(tokens, at + 2)} |->
            ParseMembers(tokens, member.next,
                         (tokens[at].v :> member.value) @@ acc)][ParseValue(tokens, at + 2)]

ParseItems(tokens, at, acc) ==
    IF IsPunct(tokens[at], "]") THEN [value |-> JList(acc), next |-> at + 1]
    ELSE IF IsPunct(tokens[at], ",") THEN ParseItems(tokens, at + 1, acc)
    ELSE [item \in {ParseValue(tokens, at)} |->
            ParseItems(tokens, item.next, Append(acc, item.value))][ParseValue(tokens, at)]

ParseValue(tokens, at) ==
    IF tokens[at].t = "scalar" THEN [value |-> tokens[at].v, next |-> at + 1]
    ELSE IF IsPunct(tokens[at], "{") THEN ParseMembers(tokens, at + 1, EmptyDict)
    ELSE ParseItems(tokens, at + 1, <<>>)

json_load(tokens) == ParseValue(tokens, 1).value

(***************************************************************************)
(* One SchemaValidator instance used for several calls, as the validate    *)
(* command uses it: a document, the copy of it read back from its JSON     *)
(* text, and calls of the validators on either, in any order.  The         *)
(* validators assign nothing to the instance and nothing to the document   *)
(* they are given.                                                         *)
(***************************************************************************)
MaxCalls == 2

ValidatorFunctions ==
    {"validate_product_schema", "validate_organization_schema",
     "validate_breadcrumb_schema", "validate_faq_schema",
     "validate_against_google_requirements"}

\* validator.<f>(schema)
Apply(f, schema) ==
    CASE f = "validate_product_schema" -> validate_product_schema(schema)
      [] f = "validate_organization_schema" -> validate_organization_schema(schema)
      [] f = "validate_breadcrumb_schema" -> validate_breadcrumb_schema(schema)
      [] f = "validate_faq_schema" -> validate_faq_schema(schema)
      [] f = "validate_against_google_requirements" ->
            validate_against_google_requirements(schema)

SessionDocs ==
    {JDict("@type" :> JStr(S_Product) @@ "name" :> JStr(S_Widget)
        @@ "description" :> JStr(S_Desc) @@ "brand" :> JDict("name" :> JStr(S_Acme))
        @@ "image" :> JList(<<JStr(S_Img1), JStr(S_UrlNoScheme)>>) @@ "offers" :> offers) :
        offers \in {JList(<<GoodOffer>>), JList(<<GoodOffer, JStr(S_Widget)>>),
                    JList(<<GoodOffer, JDict("@type" :> JStr(S_Offer))>>)}}
    \cup {JDict("@type" :> JStr(S_FAQPage) @@ "mainEntity" :> JList(entities)) :
            entities \in {<<>>,
                          <<JDict("@type" :> JStr(S_Question) @@ "name" :> JStr(S_WhatIs)
                               @@ "acceptedAnswer" :> JDict("@type" :> JStr(S_Answer)
                                                         @@ "text" :> JStr(S_Text))),
                            JNull>>}}
    \cup {JDict("@type" :> JStr(S_BreadcrumbList)
             @@ "itemListElement" :> JList(<<
                  JDict("@type" :> JStr(S_ListItem) @@ "position" :> JNum(1)
                     @@ "name" :> JStr(S_Home) @@ "item" :> JStr(S_UrlExample)),
                  JDict("@type" :> JStr(S_ListItem) @@ "position" :> JNum(2)
                     @@ "item" :> JStr(S_UrlExample))>>)),
          JDict("@type" :> JStr(S_Organization) @@ "name" :> JStr(S_ShopName)
             @@ "url" :> JStr(S_UrlExample) @@ "sameAs" :> JList(<<>>)),
          JDict("@graph" :> JList(<<JBool(FALSE), JDict("@type" :> JStr(S_Product))>>)),
          JNull, JList(<<>>)}

InitSes == pc = "idle" /\ call = NoCall /\ ret = JNull

\* validator = SchemaValidator(), with a document and the copy of it that
\* json.load reads from what json.dump wrote.
OpenSession ==
    /\ pc = "idle"
    /\ \E document \in SessionDocs :
         /\ call' = [op |-> "SchemaValidator", document |-> document]
         /\ ret' = [document |-> document, copy |-> json_load(json_dump(document)),
                    calls |-> <<>>]
    /\ pc' = "session"

\* A call of a validator on the document.
ValidateDocument ==
    /\ pc = "session"
    /\ Len(ret.calls) < MaxCalls
    /\ \E f \in ValidatorFunctions :
         ret' = [ret EXCEPT !.calls = Append(@, [f |-> f, on |-> "document",
                                                 result |-> Apply(f, ret.document)])]
    /\ UNCHANGED <<pc, call>>

\* A call of a validator on the copy.
ValidateCopy ==
    /\ pc = "session"
    /\ Len(ret.calls) < MaxCalls
    /\ \E f \in ValidatorFunctions :
         ret' = [ret EXCEPT !.calls = Append(@, [f |-> f, on |-> "copy",
                                                 result |-> Apply(f, ret.copy)])]
    /\ UNCHANGED <<pc, call>>

CloseSession ==
    /\ pc = "session"
    /\ pc' = "idle"
    /\ call' = NoCall
    /\ ret' = JNull

NextSes ==
    \/ OpenSession
    \/ ValidateDocument
    \/ ValidateCopy
    \/ CloseSession

SpecSes == InitSes /\ [][NextSes]_vars

Yielded(run) ==
    Prefix(Flatten([p \in 1..Len(run.store.sizes) |-> PageProducts(run.store.sizes, p)]),
           run.limit)

\* C15: once generate_complete_schema_package has returned, products holds
\* one package per product that get_products yielded, in fetch order,
\* total_products is the length of that list, and collections holds one
\* document per fetched collection, in order, and is empty when collections
\* are not included.
C15_PackageMirrorsFetchOrder ==
    (call.op = "generate" /\ pc \in {"save", "saved"}) =>
        LET schemas == ret.schemas[1]
            yielded == Yielded(call)
        IN  /\ Len(schemas.products) = Len(yielded)
            /\ \A i \in 1..Len(yielded) : schemas.products[i].product_id = yielded[i].id
            /\ schemas.total_products = Len(schemas.products)
            /\ IF call.include_collections
               THEN /\ Len(schemas.collections) = Len(call.store.collections)
                    /\ \A i \in 1..Len(call.store.collections) :
                         schemas.collections[i].name = call.store.collections[i].title
               ELSE schemas.collections = <<>>

\* A run over two pages that the limit cuts in the second page, with two
\* collections.
C15_Witness ==
    /\ call.op = "generate" /\ pc = "saved"
    /\ Len(call.store.sizes) = 2
    /\ call.store.sizes[1] = 2 /\ call.store.sizes[2] = 2
    /\ call.limit = 3
    /\ Len(ret.schemas[1].products) = 3
    /\ ret.schemas[1].products[3].product_id = 21
    /\ call.include_collections
    /\ Len(ret.schemas[1].collections) = 2

(***************************************************************************)
(* Properties of the documents of the builder.                             *)
(***************************************************************************)
\* The objects of a document: the document and every object nested in it.
RECURSIVE ObjectsOf(_)
ObjectsOf(v) ==
    IF IsDict(v) THEN {v} \cup UNION {ObjectsOf(v.dict[k]) : k \in DOMAIN v.dict}
    ELSE IF IsList(v) THEN UNION {ObjectsOf(v.list[i]) : i \in 1..Len(v.list)}
    ELSE {}

ClosedTypes ==
    {S_Product, S_Organization, S_BreadcrumbList, S_FAQPage, S_CollectionPage, S_Offer,
     S_Brand, S_ListItem, S_Question, S_Answer, S_PostalAddress, S_ContactPoint,
     S_QuantitativeValue}

BuilderOps ==
    {"generate_product_schema", "generate_organization_schema",
     "generate_breadcrumb_schema", "generate_faq_schema", "generate_collection_schema"}

\* C16 (as claimed): every document the builder returns, and every object
\* nested in it, has an @type, and every @type is one of Product,
\* Organization, BreadcrumbList, FAQPage, CollectionPage, Offer, Brand,
\* ListItem, Question, Answer, PostalAddress, ContactPoint and
\* QuantitativeValue.
C16_TypesInClosedSet ==
    (pc = "done" /\ call.op \in BuilderOps) =>
        \A object \in ObjectsOf(ret) :
            /\ "@type" \in DOMAIN object.dict
            /\ IsStr(object.dict["@type"])
            /\ object.dict["@type"].str \in ClosedTypes

(***************************************************************************)
(* ai/enhancer.py: one AIEnhancer instance and its requests, attempt by    *)
(* attempt, with the adapter's clock (time.time, in seconds).  A request   *)
(* is at "attempt" before each dispatch of the retry loop and at           *)
(* "returned" when _make_openai_request has returned or raised.  The       *)
(* provider decides the outcome of each dispatch and how long it takes;    *)
(* the caller decides how long after a request the next one is made.       *)
(***************************************************************************)
MaxRequests == 2
MaxGap == 1
MaxDuration == 1

\* self.min_request_interval
MIN_REQUEST_INTERVAL == 1

\* time.sleep(seconds) in the retry loop.
Sleep(run, seconds) ==
    [run EXCEPT !.clock = @ + seconds, !.sleeps = Append(@, seconds)]

\* _wait_for_rate_limit at the time `now`.
wait_for_rate_limit(run, now) ==
    LET time_since_last == now - run.last_request_time
        wait_time == IF time_since_last < MIN_REQUEST_INTERVAL
                     THEN MIN_REQUEST_INTERVAL - time_since_last ELSE 0
    IN  [run EXCEPT !.clock = now + wait_time, !.last_request_time = now + wait_time,
                    !.waited = wait_time]

\* wait_time = 2 ** attempt
RateLimitBackoff_Fixed(attempt) == 1

RateLimitBackoff(attempt) == 2 ^ attempt

\* The end of an iteration of `for attempt in range(self.max_retries)`: the
\* next attempt, or `return None` after the last one.
Continue(run) ==
    IF run.attempt + 1 >= MAX_RETRIES
    THEN [run EXCEPT !.attempt = @ + 1, !.result = JNull, !.at = "returned"]
    ELSE [run EXCEPT !.attempt = @ + 1]

\* return content.strip(); raise AIEnhancementError(...); break
Finish(run, result) == [run EXCEPT !.result = result, !.at = "returned"]

\* One iteration of the retry loop: the dispatch, which takes `duration`
\* seconds, and the handling of its outcome.
attempt_request(run, outcome, duration) ==
    LET last == run.attempt = MAX_RETRIES - 1
        dispatched == [run EXCEPT !.dispatches = Append(@, run.clock),
                                  !.outcomes = Append(@, outcome),
                                  !.clock = @ + duration]
    IN  IF DOMAIN outcome = {"content"}
        THEN IF Truthy(outcome.content)
             THEN Finish(dispatched, JStr(Strip(outcome.content.str)))
             ELSE Continue(dispatched)
        ELSE IF DOMAIN outcome = {"choices"}
        THEN Continue(dispatched)
        ELSE IF outcome.error = "RateLimitError"
        THEN Continue(Sleep(dispatched, RateLimitBackoff(run.attempt)))
        ELSE IF outcome.error \in {"APIError", "APITimeoutError"}
        THEN IF last THEN Finish(dispatched, Raise("AIEnhancementError"))
             ELSE Continue(Sleep(dispatched, 1))
        ELSE IF last THEN Finish(dispatched, JNull)
             ELSE Continue(Sleep(dispatched, 1))

AttemptOutcomes ==
    {Fails(e) : e \in ProviderErrors}
    \cup {NoChoices, Content(JNull), Content(JStr(S_RespPadded))}

InitReq == pc = "idle" /\ call = NoCall /\ ret = JNull

\* AIEnhancer(api_key): last_request_time = 0, long before the clock's time.
NewEnhancer ==
    /\ pc = "idle"
    /\ call' = [op |-> "AIEnhancer"]
    /\ ret' = [clock |-> MIN_REQUEST_INTERVAL, last_request_time |-> 0, requests |-> 0,
               waited |-> 0, attempt |-> 0, outcomes |-> <<>>, sleeps |-> <<>>,
               dispatches |-> <<>>, previous |-> <<>>, result |-> JNull, at |-> "ready"]
    /\ pc' = "ready"

\* _make_openai_request, up to the retry loop: self._wait_for_rate_limit().
\* The request is made `gap` seconds after the one before it returned.
StartRequest ==
    /\ pc = "ready"
    /\ ret.requests < MaxRequests
    /\ \E gap \in 0..MaxGap :
         ret' = [wait_for_rate_limit(ret, ret.clock + gap) EXCEPT
                    !.requests = @ + 1, !.attempt = 0, !.outcomes = <<>>, !.sleeps = <<>>,
                    !.dispatches = <<>>,
                    !.previous = IF ret.dispatches = <<>> THEN ret.previous
                                 ELSE <<ret.dispatches[Len(ret.dispatches)]>>,
                    !.result = JNull, !.at = "attempt"]
    /\ call' = [op |-> "_make_openai_request"]
    /\ pc' = "attempt"

\* One attempt of the retry loop.
Attempt ==
    /\ pc = "attempt"
    /\ \E outcome \in AttemptOutcomes, duration \in 0..MaxDuration :
         ret' = attempt_request(ret, outcome, duration)
    /\ pc' = ret'.at
    /\ UNCHANGED call

\* The request has returned or raised: the caller goes on.
ReturnToCaller ==
    /\ pc = "returned"
    /\ pc' = "ready"
    /\ ret' = [ret EXCEPT !.at = "ready"]
    /\ UNCHANGED call

\* The enhancer is no longer used.
Discard ==
    /\ pc = "ready"
    /\ pc' = "idle"
    /\ call' = NoCall
    /\ ret' = JNull

NextReq ==
    \/ NewEnhancer
    \/ StartRequest
    \/ Attempt
    \/ ReturnToCaller
    \/ Discard

SpecReq == InitReq /\ [][NextReq]_vars

(***************************************************************************)
(* Properties of the requests of an enhancer.                              *)
(***************************************************************************)
InRequest == pc \in {"attempt", "returned"}

\* The times of the dispatches of an enhancer that the state still holds:
\* the last dispatch before this request, and the dispatches of this
\* request.
Dispatches == IF pc \in {"ready", "attempt", "returned"}
              THEN ret.previous \o ret.dispatches ELSE <<>>

\* C17 (as claimed): any two consecutive dispatches of one enhancer are at
\* least min_request_interval apart, whether they belong to two requests or
\* are attempts of one request.
C17_DispatchesAnIntervalApart ==
    \A i \in 1..(Len(Dispatches) - 1) :
        Dispatches[i + 1] - Dispatches[i] >= MIN_REQUEST_INTERVAL

\* The attempts of the request so far have all been rate-limited, except
\* the last, which may have been answered.
IsRateLimited(outcome) == DOMAIN outcome = {"error"} /\ outcome.error = "RateLimitError"

IsAnswered(outcome) == DOMAIN outcome = {"content"} /\ Truthy(outcome.content)

OnlyRateLimited ==
    /\ ret.outcomes # <<>>
    /\ \A i \in 1..(Len(ret.outcomes) - 1) : IsRateLimited(ret.outcomes[i])
    /\ \/ IsRateLimited(ret.outcomes[Len(ret.outcomes)])
       \/ IsAnswered(ret.outcomes[Len(ret.outcomes)])

\* C18: a request whose failed attempts are all rate-limit errors makes at
\* most max_retries dispatches, sleeps 2^k seconds after its k-th failed
\* attempt (k = 0, 1, ...) so that the next dispatch is at least that much
\* later, returns the stripped content of the first answered attempt
\* without another dispatch, and returns None once max_retries attempts
\* were rate-limited.
C18_RateLimitBackoff ==
    (InRequest /\ OnlyRateLimited) =>
        LET n == Len(ret.outcomes)
            failed == {i \in 1..n : IsRateLimited(ret.outcomes[i])}
        IN  /\ Len(ret.dispatches) = n
            /\ n <= MAX_RETRIES
            /\ Len(ret.sleeps) = Cardinality(failed)
            /\ \A i \in failed : ret.sleeps[i] = 2 ^ (i - 1)
            /\ \A i \in 1..(n - 1) :
                 ret.dispatches[i + 1] - ret.dispatches[i] >= 2 ^ (i - 1)
            /\ IsAnswered(ret.outcomes[n]) =>
                 /\ pc = "returned"
                 /\ ret.result = JStr(Strip(ret.outcomes[n].content.str))
            /\ Cardinality(failed) = MAX_RETRIES =>
                 /\ pc = "returned"
                 /\ ret.result = JNull
            /\ pc = "returned" =>
                 IsAnswered(ret.outcomes[n]) \/ Cardinality(failed) = MAX_RETRIES

\* Two rate-limited attempts, then an answer: sleeps of 1 and 2 seconds and
\* three dispatches.
C18_Witness ==
    /\ pc = "returned"
    /\ Len(ret.outcomes) = 3
    /\ IsRateLimited(ret.outcomes[1]) /\ IsRateLimited(ret.outcomes[2])
    /\ IsAnswered(ret.outcomes[3])
    /\ ret.sleeps = <<1, 2>>
    /\ ret.result = JStr(S_Media)

IsOtherError(outcome) == DOMAIN outcome = {"error"} /\ outcome.error # "RateLimitError"

\* C19 (as claimed): a request whose first attempt fails with an error that
\* is not a rate-limit error is retried once, after a fixed delay; if the
\* retry fails with such an error as well, the request ends there, by
\* raising AIEnhancementError, whatever the errors are.
C19_RetryOnceThenRaise ==
    (InRequest /\ Len(ret.outcomes) >= 2
       /\ IsOtherError(ret.outcomes[1]) /\ IsOtherError(ret.outcomes[2])) =>
        /\ Len(ret.dispatches) = 2
        /\ ret.sleeps = <<1>>
        /\ pc = "returned"
        /\ ret.result = Raise("AIEnhancementError")

(***************************************************************************)
(* The sku of the Product schema.                                          *)
(***************************************************************************)
\* C20 (as claimed): the sku of the Product schema is the SKU of the first
\* variant when the product has a first variant with a non-blank SKU, and
\* the handle of the product when it has no variant or its first variant's
\* SKU is absent or empty; it is never blank when the handle is not.
C20_SkuFallsBackToHandle ==
    Done("generate_product_schema") =>
        LET variants == Get(call.product, "variants", <<>>)
            first_sku == IF variants = <<>> THEN S_Empty
                         ELSE Get(variants[1], "sku", S_Empty)
        IN  /\ first_sku # S_Empty => ret.dict["sku"].str = first_sku
            /\ first_sku = S_Empty => ret.dict["sku"].str = call.product.handle
            /\ call.product.handle # S_Empty => ret.dict["sku"].str # S_Empty

(***************************************************************************)
(* The brand of a Product schema.                                          *)
(***************************************************************************)
\* C21 (as claimed): in every generated Product schema brand.name is the
\* vendor of the product when the vendor is not blank, and the name of the
\* shop when the vendor is the empty string or absent.
C21_BrandFallsBackToShopName ==
    (Done("generate_product_schema") /\ "name" \in DOMAIN call.shop_info) =>
        LET vendor == Get(call.product, "vendor", S_Empty)
            brand == ret.dict["brand"].dict["name"].str
        IN  /\ vendor # S_Empty => brand = vendor
            /\ vendor = S_Empty => brand = call.shop_info["name"]

(***************************************************************************)
(* The keyword scan of the categorizers.                                   *)
(***************************************************************************)
\* The text the scan is claimed to run on: the lowercase concatenation of
\* the product type, the tags and the title.
ConcatenatedText(product) ==
    Lower(Get(product, "product_type", S_Empty) \o S_Space
              \o Join(Get(product, "tags", <<>>), S_Space) \o S_Space
              \o Get(product, "title", S_Empty))

\* The category of the keyword defined earliest in the table among those
\* that occur in the text, Other when none occurs.
EarliestKeywordCategory(text) ==
    LET matching == {i \in 1..Len(CATEGORY_MAPPING) : Contains(text, CATEGORY_MAPPING[i][1])}
    IN  IF matching = {} THEN S_Other
        ELSE CATEGORY_MAPPING[CHOOSE i \in matching : \A j \in matching : i <= j][2]

\* C22 (as claimed): the builder without an enhancer gives a product the
\* category of the earliest keyword of the table that occurs in the
\* lowercase concatenation of product type, tags and title, wherever in the
\* product the keyword occurs.
C22_EarliestKeywordWins ==
    Done("generate_product_schema") =>
        ret.dict["category"].str = EarliestKeywordCategory(ConcatenatedText(call.product))

(***************************************************************************)
(* The collection entry of the breadcrumb list.                            *)
(***************************************************************************)
\* The places in the supplied collection list of the collections the
\* product is a member of.
MemberCollections(product, collections) ==
    {k \in 1..Len(collections) :
        \E i \in 1..Len(Get(product, "collections", <<>>)) :
            product.collections[i].id = collections[k].id}

\* C23: the breadcrumb list has a collection entry, at position 2 with the
\* product at position 3, iff some collection of the supplied list has an id
\* among the product's collection memberships; the entry is the first such
\* collection in the order of the supplied list, and there is only one;
\* otherwise the list is Home, product.
C23_FirstMatchingCollectionOnly ==
    Done("generate_breadcrumb_schema") =>
        LET items == ret.dict["itemListElement"].list
            member == MemberCollections(call.product, call.collections)
        IN  /\ Len(items) = IF member = {} THEN 2 ELSE 3
            /\ items[1].dict["name"].str = S_Home
            /\ items[Len(items)].dict["name"].str = call.product.title
            /\ items[Len(items)].dict["position"].num = Len(items)
            /\ member # {} =>
                 LET first == call.collections[CHOOSE k \in member : \A j \in member : k <= j]
                 IN  items[2] = ListItem(2, first.title,
                                         ShopUrl(Config) \o S_CollectionsPath \o first.handle)

\* A product of both listed collections, its memberships in the other order
\* than the list: the entry is the collection the list names first.
C23_Witness ==
    /\ Done("generate_breadcrumb_schema")
    /\ call.collections = <<[id |-> 2, title |-> S_Gifts, handle |-> S_gifts],
                            [id |-> 1, title |-> S_Teas, handle |-> S_teas]>>
    /\ Get(call.product, "collections", <<>>) = <<[id |-> 1], [id |-> 2]>>
    /\ Len(ret.dict["itemListElement"].list) = 3
    /\ ret.dict["itemListElement"].list[2].dict["name"].str = S_Gifts

(***************************************************************************)
(* The entities of an FAQ page document.                                   *)
(***************************************************************************)
\* The answer of an FAQ entity has no text, or an empty one.
AnswerTextMissing(answer) == ~Has(answer, "text") \/ ~Truthy(answer.dict["text"])

\* C24 (as claimed): validate_faq_schema accepts an FAQ page of one entity
\* only if the entity has @type "Question", a name, and an acceptedAnswer
\* object of @type "Answer" with a non-empty text; a wrong answer @type and a
\* missing or empty answer text each have their own error, also when both
\* occur on the same entity.
C24_FaqEntityItemizedErrors ==
    (/\ Returned("validate_faq_schema")
     /\ IsDict(call.schema)
     /\ IsList(DictGet(call.schema, "mainEntity"))
     /\ Len(DictGet(call.schema, "mainEntity").list) = 1
     /\ IsDict(call.schema.dict["mainEntity"].list[1]))
    =>
        LET entity == call.schema.dict["mainEntity"].list[1]
            answer == DictGet(entity, "acceptedAnswer")
            n == S_FaqItem \o IntStr(1)
        IN  /\ ret.valid =>
                 /\ DictGet(entity, "@type") = JStr(S_Question)
                 /\ Has(entity, "name")
                 /\ IsDict(answer)
                 /\ DictGet(answer, "@type") = JStr(S_Answer)
                 /\ ~AnswerTextMissing(answer)
            /\ IsDict(answer) =>
                 /\ DictGet(answer, "@type") # JStr(S_Answer)
                      => Count(ret.errors, n \o S_AnswerMustHaveType) = 1
                 /\ AnswerTextMissing(answer)
                      => Count(ret.errors, n \o S_AnswerMissingText) = 1

(***************************************************************************)
(* Offer and image sub-validation, as validate_product_schema reports it.  *)
(***************************************************************************)
\* The offers of a document as a list: a single offer is a list of one.
OfferList(schema) ==
    IF IsList(schema.dict["offers"]) THEN schema.dict["offers"].list
    ELSE <<schema.dict["offers"]>>

\* The messages of offer sub-validation about the offer at place i.
OfferErrors(errors, i) ==
    {k \in 1..Len(errors) : StartsWith(errors[k], S_OfferSpace \o IntStr(i) \o S_Space)}

\* C25 (as claimed): an offer, given alone or as an element of a list, has no
\* error only if its @type is "Offer", it has price, priceCurrency and
\* availability, and its availability is a string that begins with the
\* schema.org namespace; an availability that is no string is an error.
C25_OfferValidOnlyIfNamespacedAvailability ==
    (Returned("validate_product_schema") /\ IsDict(call.schema) /\ Has(call.schema, "offers"))
    =>
        \A i \in 1..Len(OfferList(call.schema)) :
            LET offer == OfferList(call.schema)[i]
            IN  OfferErrors(ret.errors, i) = {} =>
                    /\ IsDict(offer)
                    /\ DictGet(offer, "@type") = JStr(S_Offer)
                    /\ \A f \in {"price", "priceCurrency", "availability"} : Has(offer, f)
                    /\ IsStr(offer.dict["availability"])
                    /\ StartsWith(offer.dict["availability"].str, S_ContextSlash)

\* C26 (as claimed): every problem image sub-validation detects in the image
\* value of a Product document (an image string that is no well-formed URL,
\* an image object without url or with a wrong @type) is reported in the
\* warnings of validate_product_schema, and never in its errors.
C26_ImageProblemsAreWarnings ==
    (Returned("validate_product_schema") /\ IsDict(call.schema) /\ Has(call.schema, "image"))
    =>
        LET detected == validate_images(call.schema.dict["image"]).warnings
        IN  \A k \in {j \in 1..Len(detected) : detected[j] # S_NoImages} :
                /\ Count(ret.warnings, detected[k]) >= 1
                /\ Count(ret.errors, detected[k]) = 0

(***************************************************************************)
(* The FAQ of the enhancer.                                                *)
(***************************************************************************)
\* The questions of the provider's answer: the entries of "questions" when
\* the request is answered with a JSON object that has such a list, none
\* when the request fails or its answer cannot be parsed.
ProviderQuestions(outcomes) ==
    LET response == make_openai_request(outcomes)
    IN  IF Raised(response) \/ ~IsStr(response) THEN <<>>
        ELSE LET faq_data == json_loads(response.str)
             IN  IF Raised(faq_data) \/ ~IsDict(faq_data) THEN <<>>
                 ELSE IF ~IsList(DictGet(faq_data, "questions")) THEN <<>>
                 ELSE faq_data.dict["questions"].list

\* An entry of the provider's answer that is a question/answer pair.
IsValidPair(q) == IsDict(q) /\ Has(q, "question") /\ Has(q, "answer")

\* The places of the valid pairs among the first five questions.
ValidPairs(questions) ==
    {i \in 1..Len(questions) : i <= 5 /\ IsValidPair(questions[i])}

\* The names of the entities of an FAQ page.
EntityNames(faq) ==
    [i \in 1..Len(faq.dict["mainEntity"].list) |-> faq.dict["mainEntity"].list[i].dict["name"]]

\* C27 (as claimed): whenever the provider fails, its response cannot be
\* parsed or it holds no valid pair, the FAQ of the enhancer is the fallback
\* of exactly 2 entries, the "What is X?" entry and the shipping entry, for
\* every product.
C27_FallbackHasTwoEntries ==
    (Done("AIEnhancer.generate_faq_schema")
        /\ ValidPairs(ProviderQuestions(call.outcomes)) = {})
    => EntityNames(ret)
         = <<JStr(S_WhatIs \o Get(call.product, "title", S_Empty) \o S_QMark),
             JStr(S_DoYouOfferShipping)>>

\* C27 (amended): the FAQ of the enhancer is an FAQPage; when the first five
\* questions of the provider's answer hold a valid pair, its entities are
\* those pairs, between 1 and 5, in the provider's order; otherwise (the
\* provider fails, its answer cannot be parsed or holds no such pair) it is
\* the fallback: the "What is X?" entry if the product has a non-empty title,
\* then the shipping entry, that is 2 entries for a titled product and 1 for
\* a product without title.
C27_FaqFromPairsOrFallback ==
    Done("AIEnhancer.generate_faq_schema") =>
        LET questions == ProviderQuestions(call.outcomes)
            valid == ValidPairs(questions)
            entities == ret.dict["mainEntity"].list
            title == Get(call.product, "title", S_Empty)
            place(k) == Cardinality({i \in valid : i <= k})
        IN  /\ DictGet(ret, "@type") = JStr(S_FAQPage)
            /\ valid # {} =>
                 /\ Len(entities) = Cardinality(valid)
                 /\ Len(entities) \in 1..5
                 /\ \A k \in valid :
                      /\ entities[place(k)].dict["name"] = questions[k].dict["question"]
                      /\ entities[place(k)].dict["acceptedAnswer"].dict["text"]
                           = questions[k].dict["answer"]
            /\ valid = {} =>
                 /\ title # S_Empty =>
                      EntityNames(ret) = <<JStr(S_WhatIs \o title \o S_QMark),
                                           JStr(S_DoYouOfferShipping)>>
                 /\ title = S_Empty => EntityNames(ret) = <<JStr(S_DoYouOfferShipping)>>

\* The provider's answer cannot be parsed and the product has no title: the
\* fallback is the shipping entry alone.
C27_Witness ==
    /\ Done("AIEnhancer.generate_faq_schema")
    /\ call.outcomes = <<Content(JStr(S_RespDesc))>>
    /\ Get(call.product, "title", S_Empty) = S_Empty
    /\ Len(ret.dict["mainEntity"].list) = 1

\* The provider answers with six valid pairs: the FAQ has the first five.
C27_WitnessFive ==
    /\ Done("AIEnhancer.generate_faq_schema")
    /\ Len(ProviderQuestions(call.outcomes)) = 6
    /\ Len(ret.dict["mainEntity"].list) = 5

(***************************************************************************)
(* The materials found in a text.                                          *)
(***************************************************************************)
\* C28 (as claimed): extract_materials returns each matched material at most
\* once, title-cased, and the set of the names it returns is the set of the
\* vocabulary entries that occur, whatever their case, in the text.
C28_MaterialsOnceEach ==
    Done("extract_materials") =>
        LET found == ret.list
            occurring == {k \in 1..Len(materials) : Contains(Lower(call.text), materials[k])}
        IN  /\ \A i, j \in 1..Len(found) : found[i] = found[j] => i = j
            /\ {found[i] : i \in 1..Len(found)} = {JStr(Title(materials[k])) : k \in occurring}

(***************************************************************************)
(* ai/enhancer.py: one AIEnhancer instance used by several callers at      *)
(* once.  Each caller runs _make_openai_request up to its first dispatch,  *)
(* statement by statement; the statements of different callers interleave  *)
(* in any order, and the fields of the instance are shared.  pc and call   *)
(* hold the position and the local variables of each caller, ret the       *)
(* clock, self.last_request_time and the times of the dispatches.          *)
(***************************************************************************)
MaxCallers == 2
MaxTime == 3
MaxDispatches == 3

Callers == 1..MaxCallers

NoLocals == [current_time |-> 0, time_since_last |-> 0, wake |-> 0]

InitGate ==
    /\ pc = [t \in Callers |-> "idle"]
    /\ call = [t \in Callers |-> NoLocals]
    /\ ret = [clock |-> MIN_REQUEST_INTERVAL, last_request_time |-> 0, dispatches |-> <<>>]

\* The requests that are under way or dispatched.
Started == Len(ret.dispatches) + Cardinality({t \in Callers : pc[t] # "idle"})

\* A caller enters _make_openai_request, which calls _wait_for_rate_limit.
MakeRequest(t) ==
    /\ pc[t] = "idle"
    /\ Started < MaxDispatches
    /\ pc' = [pc EXCEPT ![t] = "current_time"]
    /\ call' = [call EXCEPT ![t] = NoLocals]
    /\ UNCHANGED ret

\* current_time = time.time()
ReadTime(t) ==
    /\ pc[t] = "current_time"
    /\ call' = [call EXCEPT ![t].current_time = ret.clock]
    /\ pc' = [pc EXCEPT ![t] = "time_since_last"]
    /\ UNCHANGED ret

\* time_since_last = current_time - self.last_request_time
ReadLastRequestTime(t) ==
    /\ pc[t] = "time_since_last"
    /\ call' = [call EXCEPT ![t].time_since_last =
                        call[t].current_time - ret.last_request_time]
    /\ pc' = [pc EXCEPT ![t] = "check"]
    /\ UNCHANGED ret

\* if time_since_last < self.min_request_interval: time.sleep(wait_time)
CheckInterval(t) ==
    /\ pc[t] = "check"
    /\ IF call[t].time_since_last < MIN_REQUEST_INTERVAL
       THEN /\ call' = [call EXCEPT ![t].wake =
                            ret.clock + (MIN_REQUEST_INTERVAL - call[t].time_since_last)]
            /\ pc' = [pc EXCEPT ![t] = "sleeping"]
       ELSE /\ pc' = [pc EXCEPT ![t] = "stamp"]
            /\ UNCHANGED call
    /\ UNCHANGED ret

\* time.sleep returns once the time slept has passed.
WakeUp(t) ==
    /\ pc[t] = "sleeping"
    /\ ret.clock >= call[t].wake
    /\ pc' = [pc EXCEPT ![t] = "stamp"]
    /\ UNCHANGED <<call, ret>>

\* self.last_request_time = time.time()
StampRequestTime(t) ==
    /\ pc[t] = "stamp"
    /\ ret' = [ret EXCEPT !.last_request_time = ret.clock]
    /\ pc' = [pc EXCEPT ![t] = "dispatch"]
    /\ UNCHANGED call

\* self.client.chat.completions.create(...), the first attempt of the loop.
DispatchRequest(t) ==
    /\ pc[t] = "dispatch"
    /\ ret' = [ret EXCEPT !.dispatches = Append(@, ret.clock)]
    /\ pc' = [pc EXCEPT ![t] = "idle"]
    /\ UNCHANGED call

\* A second passes.  The dispatch follows the stamp at once: no second
\* passes while a caller is between the two.
Tick ==
    /\ ret.clock < MaxTime
    /\ \A t \in Callers : pc[t] # "dispatch"
    /\ ret' = [ret EXCEPT !.clock = @ + 1]
    /\ UNCHANGED <<pc, call>>

NextGate ==
    \/ \E t \in Callers : MakeRequest(t)
    \/ \E t \in Callers : ReadTime(t)
    \/ \E t \in Callers : ReadLastRequestTime(t)
    \/ \E t \in Callers : CheckInterval(t)
    \/ \E t \in Callers : WakeUp(t)
    \/ \E t \in Callers : StampRequestTime(t)
    \/ \E t \in Callers : DispatchRequest(t)
    \/ Tick

SpecGate == InitGate /\ [][NextGate]_vars

\* C29 (as claimed): when several callers use one enhancer at once, no two
\* dispatches start less than the minimum interval apart, in any
\* interleaving of the callers' steps through _wait_for_rate_limit.
C29_GateAdmitsOneDispatchAtATime ==
    (DOMAIN ret = {"clock", "last_request_time", "dispatches"}) =>
        \A i, j \in 1..Len(ret.dispatches) :
            i < j => ret.dispatches[j] - ret.dispatches[i] >= MIN_REQUEST_INTERVAL

(***************************************************************************)
(* The length of the texts the enhancer returns.                           *)
(***************************************************************************)
\* C30 (as claimed): whatever the provider does, the text returned by
\* enhance_description and by optimize_title_for_seo is at most max_length
\* characters long, on the accepted-response path and on every fallback path.
C30_TextWithinMaxLength ==
    /\ Done("AIEnhancer.enhance_description") => Len(ret.str) <= MAX_DESCRIPTION_LENGTH
    /\ Done("AIEnhancer.optimize_title_for_seo") => Len(ret.str) <= MAX_TITLE_LENGTH
====
